---- MODULE Spec2Model ----
(***************************************************************************)
(* Model of the ateam-mcp gateway: the credential codec (src/src/api.js),  *)
(* the per-session credential store (src/src/api.js), the OAuth bridge     *)
(* (src/src/oauth.js), the HTTP session binder (src/src/http.js) and the   *)
(* tool dispatcher (src/src/tools.js, third version, lines 1065-2374).     *)
(*                                                                         *)
(* Strings that the code inspects character by character (API keys,        *)
(* tenants) are sequences of one-character strings.  Time is counted in    *)
(* minutes.                                                                *)
(***************************************************************************)
EXTENDS Integers, Sequences, FiniteSets, TLC

VARIABLES
  \* ---- OAuth bridge (src/src/oauth.js) ----
  now,        \* Date.now(), in minutes
  clients,    \* ATeamClientsStore.clients : client_id -> record
  pending,    \* ATeamOAuthProvider.pending : pendingId -> record
  codes,      \* ATeamOAuthProvider.codes : code -> record
  nPending,   \* number of randomUUID() pending ids drawn so far
  nCodes,     \* number of randomUUID() authorization codes drawn so far
  minted,     \* history: code -> what the consent submission that minted it carried
  redeemed,   \* history: code -> number of successful exchanges
  lastX,      \* history: outcome of the last exchange or consent submission
  born,       \* history: when and with what each live pending record and code was made
  \* ---- session store, HTTP binder, dispatcher ----
  envKey,         \* ENV_API_KEY
  envTenant,      \* ENV_TENANT
  oauthDisabled,  \* process.env.ATEAM_OAUTH_DISABLED === "1"
  sessions,       \* api.js `sessions` : sessionId -> [tenant, apiKey]
  transports,     \* http.js `transports` : set of registered session ids
  conns,          \* HTTP connections by generated session id
  calls,          \* tool calls in flight, by slot
  done,           \* history: the tool call that returned last
  lastSet,        \* history: sessionId -> arguments of the last setSessionCredentials
  \* ---- tenant fallback cache (spec section 4.3) ----
  fbNow,
  fbSessions,
  fallback,
  fbLast,
  justSwept,      \* history: the last step of the session store was a sweep
  \* ---- credential codec, exercised alone ----
  input,          \* the value handed to parseApiKey, with what it was built from
  returned,       \* what parseApiKey returned for it
  \* ---- token relay (src/src/stub.js) ----
  rNow,           \* Date.now(), in half hours
  recentTokens,   \* stub.js `recentTokens`, in insertion order
  lastRelay       \* history: the last request that went through autoInjectToken

oauthVars == <<now, clients, pending, codes, nPending, nCodes, minted, redeemed, lastX, born>>
sessVars  == <<envKey, envTenant, oauthDisabled, sessions, transports, conns,
               calls, done, lastSet>>
fbVars    == <<fbNow, fbSessions, fallback, fbLast, justSwept>>
codecVars == <<input, returned>>
relayVars == <<rNow, recentTokens, lastRelay>>
vars      == <<oauthVars, sessVars, fbVars, codecVars, relayVars>>

-----------------------------------------------------------------------------
(* Bounds *)
MaxTime     == 15    \* the clock stops here (minutes)
MaxPending  == 2     \* randomUUID() pending ids
MaxCodes    == 2     \* randomUUID() authorization codes
MaxConns    == 1     \* HTTP connections (generated session ids) under SpecSess
MaxStoreConns == 2   \* HTTP connections under SpecStore
MaxCalls    == 1     \* tool calls in flight at once
MaxFbTime   == 4
MaxRelayTime == 4    \* half hours the token relay's clock runs

-----------------------------------------------------------------------------
(* Characters and strings *)

Digits == {"0","1","2","3","4","5","6","7","8","9"}
Lower  == {"a","b","c","d","e","f","g","h","i","j","k","l","m",
           "n","o","p","q","r","s","t","u","v","w","x","y","z"}
HexChars == Digits \cup {"a","b","c","d","e","f"}
AlNum  == Lower \cup Digits

HexLen       == 32   \* {32} in both regular expressions
TenantMidMax == 28   \* {0,28} in the tenant expression

NULL      == <<"null">>        \* JavaScript null
UNDEFINED == <<"undefined">>   \* JavaScript undefined (a missing argument)
EMPTY     == << >>             \* the empty string ""
MAIN      == <<"m","a","i","n">>
ADAS_     == <<"a","d","a","s","_">>

OBJECT    == <<"object">>      \* a JavaScript value that is no string (a number, an object)

IsString(v) == v \notin {NULL, UNDEFINED, OBJECT}
Truthy(v)   == v \notin {NULL, UNDEFINED, EMPTY}

AllIn(s, S) == \A i \in 1..Len(s) : s[i] \in S

\* /^adas_([a-z0-9][a-z0-9-]{0,28}[a-z0-9])_([0-9a-f]{32})$/ : the tenant group
\* cannot contain "_", so the only possible split is at the last 33 characters.
\* a plausible slip: {0,28} written as *, so the tenant has no maximal length
MatchTenantKeyAnyLength(key) ==
  /\ Len(key) >= 5 + 2 + 1 + HexLen
  /\ SubSeq(key, 1, 5) = ADAS_
  /\ LET n  == Len(key)
         t  == SubSeq(key, 6, n - HexLen - 1)
         h  == SubSeq(key, n - HexLen + 1, n)
     IN /\ key[n - HexLen] = "_"
        /\ t[1] \in AlNum
        /\ t[Len(t)] \in AlNum
        /\ AllIn(SubSeq(t, 2, Len(t) - 1), AlNum \cup {"-"})
        /\ AllIn(h, HexChars)

MatchTenantKey(key) ==
  /\ Len(key) >= 5 + 2 + 1 + HexLen
  /\ Len(key) <= 5 + (TenantMidMax + 2) + 1 + HexLen
  /\ SubSeq(key, 1, 5) = ADAS_
  /\ LET n  == Len(key)
         t  == SubSeq(key, 6, n - HexLen - 1)
         h  == SubSeq(key, n - HexLen + 1, n)
     IN /\ key[n - HexLen] = "_"
        /\ t[1] \in AlNum
        /\ t[Len(t)] \in AlNum
        /\ AllIn(SubSeq(t, 2, Len(t) - 1), AlNum \cup {"-"})
        /\ AllIn(h, HexChars)

TenantGroup(key) == SubSeq(key, 6, Len(key) - HexLen - 1)

\* /^adas_([0-9a-f]{32})$/
MatchLegacyKey(key) ==
  /\ Len(key) = 5 + HexLen
  /\ SubSeq(key, 1, 5) = ADAS_
  /\ AllIn(SubSeq(key, 6, Len(key)), HexChars)

parseString(key) ==
  IF ~Truthy(key) \/ ~IsString(key) THEN [tenant |-> NULL, isValid |-> FALSE]
  ELSE IF MatchTenantKey(key) THEN [tenant |-> TenantGroup(key), isValid |-> TRUE]
  ELSE IF MatchLegacyKey(key) THEN [tenant |-> NULL, isValid |-> TRUE]
  ELSE [tenant |-> NULL, isValid |-> FALSE]

Hex32(c) == [i \in 1..HexLen |-> c]

\* The credentials the model's users hold.
KeyT1     == ADAS_ \o <<"t","1">> \o <<"_">> \o Hex32("a")   \* tenant t1
KeyT2     == ADAS_ \o <<"t","2">> \o <<"_">> \o Hex32("b")   \* tenant t2
KeyLegacy == ADAS_ \o Hex32("c")                               \* no tenant
KeyBad    == ADAS_ \o <<"t","1">> \o <<"_">>                   \* hex suffix missing
TenantT1  == <<"t","1">>
TenantT2  == <<"t","2">>

ValidKeys == {KeyT1, KeyT2, KeyLegacy}

\* before parseApiKey has been called
NoInput   == [key |-> NULL, expect |-> [tenant |-> NULL, isValid |-> FALSE]]
NotParsed == [called |-> FALSE, tenant |-> NULL, isValid |-> FALSE]
NoRelay   == [op |-> "none", in |-> UNDEFINED, out |-> UNDEFINED, at |-> 0]

\* parseString of the credentials above, computed once
KnownKeys    == {KeyT1, KeyT2, KeyLegacy, KeyBad}
ParsedKnown  == [k \in KnownKeys |-> parseString(k)]

parseApiKey(key) == IF key \in KnownKeys THEN ParsedKnown[key] ELSE parseString(key)

-----------------------------------------------------------------------------
(* Maps as functions with a finite domain *)

Put(m, k, v) == [x \in DOMAIN m \cup {k} |-> IF x = k THEN v ELSE m[x]]
Del(m, k)    == [x \in DOMAIN m \ {k} |-> m[x]]
EmptyMap     == [x \in {} |-> 0]

-----------------------------------------------------------------------------
(* OAuth bridge: src/src/oauth.js *)

AUTH_CODE_TTL == 5    \* minutes
PENDING_TTL   == 10   \* minutes

MaxRegistered == 1    \* dynamically registered clients

PublicClient == [client_id |-> "ateam-public", client_name |-> "A-Team MCP Public Client"]
GenClientIds == <<"gen-1", "gen-2", "gen-3">>      \* randomUUID() client ids
GivenClientIds == {"client-b"}
NoClientId == ""

\* the authorization parameters the SDK's /authorize handler passes on
ParamSet == { [redirectUri |-> "https://a.example/cb", state |-> "st-1", codeChallenge |-> "ch-1"],
              [redirectUri |-> "https://b.example/cb", state |-> "",     codeChallenge |-> "ch-2"] }

SubmittedKeys == {KeyT1, KeyT2, KeyBad}

PendingIds == 1..MaxPending
CodeIds    == 1..MaxCodes
NoUuid == 0
TickStep == 5         \* the clock is observed every five minutes

\* ATeamClientsStore.registerClient
registerClient(cl, metadata, generatedId) ==
  LET clientId == IF metadata.client_id # NoClientId THEN metadata.client_id ELSE generatedId
      record   == [client_id |-> clientId, client_name |-> metadata.client_name]
  IN Put(cl, clientId, record)

\* a plausible slip: the pending record is given twice its lifetime
authorizeLate(pd, pendingId, client, params, t) ==
  Put(pd, pendingId, [client |-> client, params |-> params, expiresAt |-> t + 2 * PENDING_TTL])

\* ATeamOAuthProvider.authorize
authorize(pd, pendingId, client, params, t) ==
  Put(pd, pendingId, [client |-> client, params |-> params, expiresAt |-> t + PENDING_TTL])

\* a plausible slip: the state parameter is not copied to the redirect
authorizeSubmitDropsState(pd, cd, pending_id, api_key, code, t) ==
  IF pending_id \notin DOMAIN pd \/ pd[pending_id].expiresAt < t
  THEN [pending |-> Del(pd, pending_id), codes |-> cd, status |-> "expired",
        minted |-> FALSE, redirectUri |-> "", state |-> ""]
  ELSE IF ~parseApiKey(api_key).isValid
  THEN [pending |-> pd, codes |-> cd, status |-> "invalid_format",
        minted |-> FALSE, redirectUri |-> "", state |-> ""]
  ELSE LET entry == pd[pending_id]
       IN [pending |-> Del(pd, pending_id),
           codes   |-> Put(cd, code, [client |-> entry.client, params |-> entry.params,
                                      apiKey |-> api_key, expiresAt |-> t + AUTH_CODE_TTL]),
           status  |-> "redirect", minted |-> TRUE,
           redirectUri |-> entry.params.redirectUri, state |-> ""]

\* a plausible slip: a rejected credential consumes the pending record
authorizeSubmitDropsPending(pd, cd, pending_id, api_key, code, t) ==
  IF pending_id \notin DOMAIN pd \/ pd[pending_id].expiresAt < t
  THEN [pending |-> Del(pd, pending_id), codes |-> cd, status |-> "expired",
        minted |-> FALSE, redirectUri |-> "", state |-> ""]
  ELSE IF ~parseApiKey(api_key).isValid
  THEN [pending |-> Del(pd, pending_id), codes |-> cd, status |-> "invalid_format",
        minted |-> FALSE, redirectUri |-> "", state |-> ""]
  ELSE LET entry == pd[pending_id]
       IN [pending |-> Del(pd, pending_id),
           codes   |-> Put(cd, code, [client |-> entry.client, params |-> entry.params,
                                      apiKey |-> api_key, expiresAt |-> t + AUTH_CODE_TTL]),
           status  |-> "redirect", minted |-> TRUE,
           redirectUri |-> entry.params.redirectUri, state |-> entry.params.state]

\* a plausible slip: the expiry of the pending record is not looked at
authorizeSubmitIgnoresExpiry(pd, cd, pending_id, api_key, code, t) ==
  IF pending_id \notin DOMAIN pd
  THEN [pending |-> Del(pd, pending_id), codes |-> cd, status |-> "expired",
        minted |-> FALSE, redirectUri |-> "", state |-> ""]
  ELSE IF ~parseApiKey(api_key).isValid
  THEN [pending |-> pd, codes |-> cd, status |-> "invalid_format",
        minted |-> FALSE, redirectUri |-> "", state |-> ""]
  ELSE LET entry == pd[pending_id]
       IN [pending |-> Del(pd, pending_id),
           codes   |-> Put(cd, code, [client |-> entry.client, params |-> entry.params,
                                      apiKey |-> api_key, expiresAt |-> t + AUTH_CODE_TTL]),
           status  |-> "redirect", minted |-> TRUE,
           redirectUri |-> entry.params.redirectUri, state |-> entry.params.state]

\* POST /authorize-submit
\* a plausible slip: the pending record is not deleted when its code is minted
authorizeSubmitKeepsPending(pd, cd, pending_id, api_key, code, t) ==
  IF pending_id \notin DOMAIN pd \/ pd[pending_id].expiresAt < t
  THEN [pending |-> Del(pd, pending_id), codes |-> cd, status |-> "expired",
        minted |-> FALSE, redirectUri |-> "", state |-> ""]
  ELSE IF ~parseApiKey(api_key).isValid
  THEN [pending |-> pd, codes |-> cd, status |-> "invalid_format",
        minted |-> FALSE, redirectUri |-> "", state |-> ""]
  ELSE LET entry == pd[pending_id]
       IN [pending |-> pd,
           codes   |-> Put(cd, code, [client |-> entry.client, params |-> entry.params,
                                      apiKey |-> api_key, expiresAt |-> t + AUTH_CODE_TTL]),
           status  |-> "redirect", minted |-> TRUE,
           redirectUri |-> entry.params.redirectUri, state |-> entry.params.state]

authorizeSubmit(pd, cd, pending_id, api_key, code, t) ==
  IF pending_id \notin DOMAIN pd \/ pd[pending_id].expiresAt < t
  THEN [pending |-> Del(pd, pending_id), codes |-> cd, status |-> "expired",
        minted |-> FALSE, redirectUri |-> "", state |-> ""]
  ELSE IF ~parseApiKey(api_key).isValid
  THEN [pending |-> pd, codes |-> cd, status |-> "invalid_format",
        minted |-> FALSE, redirectUri |-> "", state |-> ""]
  ELSE LET entry == pd[pending_id]
       IN [pending |-> Del(pd, pending_id),
           codes   |-> Put(cd, code, [client |-> entry.client, params |-> entry.params,
                                      apiKey |-> api_key, expiresAt |-> t + AUTH_CODE_TTL]),
           status  |-> "redirect", minted |-> TRUE,
           redirectUri |-> entry.params.redirectUri, state |-> entry.params.state]

NoToken == NULL

\* a plausible slip: the code is handed out but stays in the table
exchangeKeepsCode(cd, client, authorizationCode, t) ==
  IF authorizationCode \notin DOMAIN cd
  THEN [codes |-> cd, ok |-> FALSE, error |-> "Invalid authorization code",
        access_token |-> NoToken, token_type |-> ""]
  ELSE IF cd[authorizationCode].client.client_id # client.client_id
  THEN [codes |-> cd, ok |-> FALSE, error |-> "Authorization code was not issued to this client",
        access_token |-> NoToken, token_type |-> ""]
  ELSE IF cd[authorizationCode].expiresAt < t
  THEN [codes |-> Del(cd, authorizationCode), ok |-> FALSE, error |-> "Authorization code expired",
        access_token |-> NoToken, token_type |-> ""]
  ELSE [codes |-> cd, ok |-> TRUE, error |-> "",
        access_token |-> cd[authorizationCode].apiKey, token_type |-> "bearer"]

\* a plausible slip: the client comparison is left out
exchangeAnyClient(cd, client, authorizationCode, t) ==
  IF authorizationCode \notin DOMAIN cd
  THEN [codes |-> cd, ok |-> FALSE, error |-> "Invalid authorization code",
        access_token |-> NoToken, token_type |-> ""]
  ELSE IF cd[authorizationCode].expiresAt < t
  THEN [codes |-> Del(cd, authorizationCode), ok |-> FALSE, error |-> "Authorization code expired",
        access_token |-> NoToken, token_type |-> ""]
  ELSE [codes |-> Del(cd, authorizationCode), ok |-> TRUE, error |-> "",
        access_token |-> cd[authorizationCode].apiKey, token_type |-> "bearer"]

\* a plausible slip: the credential is read from the first entry of the table
exchangeFirstEntry(cd, client, authorizationCode, t) ==
  IF authorizationCode \notin DOMAIN cd
  THEN [codes |-> cd, ok |-> FALSE, error |-> "Invalid authorization code",
        access_token |-> NoToken, token_type |-> ""]
  ELSE IF cd[authorizationCode].client.client_id # client.client_id
  THEN [codes |-> cd, ok |-> FALSE, error |-> "Authorization code was not issued to this client",
        access_token |-> NoToken, token_type |-> ""]
  ELSE IF cd[authorizationCode].expiresAt < t
  THEN [codes |-> Del(cd, authorizationCode), ok |-> FALSE, error |-> "Authorization code expired",
        access_token |-> NoToken, token_type |-> ""]
  ELSE LET first == CHOOSE c \in DOMAIN cd : \A d \in DOMAIN cd : c <= d
       IN [codes |-> Del(cd, authorizationCode), ok |-> TRUE, error |-> "",
           access_token |-> cd[first].apiKey, token_type |-> "bearer"]

\* a plausible slip: the expiry of the code is not looked at
exchangeNoExpiry(cd, client, authorizationCode, t) ==
  IF authorizationCode \notin DOMAIN cd
  THEN [codes |-> cd, ok |-> FALSE, error |-> "Invalid authorization code",
        access_token |-> NoToken, token_type |-> ""]
  ELSE IF cd[authorizationCode].client.client_id # client.client_id
  THEN [codes |-> cd, ok |-> FALSE, error |-> "Authorization code was not issued to this client",
        access_token |-> NoToken, token_type |-> ""]
  ELSE [codes |-> Del(cd, authorizationCode), ok |-> TRUE, error |-> "",
        access_token |-> cd[authorizationCode].apiKey, token_type |-> "bearer"]

\* a plausible slip: a code presented by the wrong client is burnt
exchangeBurnsOnMismatch(cd, client, authorizationCode, t) ==
  IF authorizationCode \notin DOMAIN cd
  THEN [codes |-> cd, ok |-> FALSE, error |-> "Invalid authorization code",
        access_token |-> NoToken, token_type |-> ""]
  ELSE IF cd[authorizationCode].client.client_id # client.client_id
  THEN [codes |-> Del(cd, authorizationCode), ok |-> FALSE,
        error |-> "Authorization code was not issued to this client",
        access_token |-> NoToken, token_type |-> ""]
  ELSE IF cd[authorizationCode].expiresAt < t
  THEN [codes |-> Del(cd, authorizationCode), ok |-> FALSE, error |-> "Authorization code expired",
        access_token |-> NoToken, token_type |-> ""]
  ELSE [codes |-> Del(cd, authorizationCode), ok |-> TRUE, error |-> "",
        access_token |-> cd[authorizationCode].apiKey, token_type |-> "bearer"]

\* ATeamOAuthProvider.exchangeAuthorizationCode
exchangeAuthorizationCode(cd, client, authorizationCode, t) ==
  IF authorizationCode \notin DOMAIN cd
  THEN [codes |-> cd, ok |-> FALSE, error |-> "Invalid authorization code",
        access_token |-> NoToken, token_type |-> ""]
  ELSE IF cd[authorizationCode].client.client_id # client.client_id
  THEN [codes |-> cd, ok |-> FALSE, error |-> "Authorization code was not issued to this client",
        access_token |-> NoToken, token_type |-> ""]
  ELSE IF cd[authorizationCode].expiresAt < t
  THEN [codes |-> Del(cd, authorizationCode), ok |-> FALSE, error |-> "Authorization code expired",
        access_token |-> NoToken, token_type |-> ""]
  ELSE [codes |-> Del(cd, authorizationCode), ok |-> TRUE, error |-> "",
        access_token |-> cd[authorizationCode].apiKey, token_type |-> "bearer"]

YearMinutes == 525600     \* 86400 * 365 seconds

\* a plausible slip: only a credential that a consent submission handed in is
\* accepted
verifyAccessTokenIssuedOnly(token, t) ==
  IF ~parseApiKey(token).isValid \/ \A c \in DOMAIN minted : minted[c].apiKey # token
  THEN [ok |-> FALSE, info |-> NULL]
  ELSE [ok |-> TRUE,
        info |-> [token |-> token, clientId |-> "ateam-public", scopes |-> << >>,
                  expiresAt |-> t + YearMinutes]]

\* ATeamOAuthProvider.verifyAccessToken; it throws when ok is FALSE
verifyAccessToken(token, t) ==
  IF ~parseApiKey(token).isValid
  THEN [ok |-> FALSE, info |-> NULL]
  ELSE [ok |-> TRUE,
        info |-> [token |-> token, clientId |-> "ateam-public", scopes |-> << >>,
                  expiresAt |-> t + YearMinutes]]

\* the setInterval callback of mountOAuth
cleanupCodes(cd, t)   == [c \in {x \in DOMAIN cd : ~(cd[x].expiresAt < t)} |-> cd[c]]
\* a plausible slip: an entry is dropped at the instant it expires
cleanupPendingAtExpiry(pd, t) == [p \in {x \in DOMAIN pd : ~(pd[x].expiresAt <= t)} |-> pd[p]]
cleanupPending(pd, t) == [p \in {x \in DOMAIN pd : ~(pd[x].expiresAt < t)} |-> pd[p]]

NoX == [op |-> "none", code |-> NoUuid, client_id |-> "", ok |-> FALSE,
        error |-> "", access_token |-> NoToken, token_type |-> "",
        prior |-> 0, live |-> FALSE, age |-> -1, codesSame |-> TRUE]

Tick ==
  /\ now + TickStep <= MaxTime
  /\ now' = now + TickStep
  /\ UNCHANGED <<clients, pending, codes, nPending, nCodes, minted, redeemed, lastX, born, sessVars, fbVars, codecVars, relayVars>>

RegisterClient(given) ==
  LET gen == Cardinality({i \in 1..Len(GenClientIds) : GenClientIds[i] \in DOMAIN clients})
  IN /\ Cardinality(DOMAIN clients) < 1 + MaxRegistered
     /\ clients' = registerClient(clients, [client_id |-> given, client_name |-> "Dynamic"],
                                  GenClientIds[gen + 1])
     /\ clients' # clients
     /\ UNCHANGED <<now, pending, codes, nPending, nCodes, minted, redeemed, lastX, born, sessVars, fbVars, codecVars, relayVars>>

NoBorn == [p |-> EmptyMap, c |-> EmptyMap]

\* the history keeps the entries whose record is still in its table
Keep(m, D) == [k \in DOMAIN m \cap D |-> m[k]]
Live(b, pd, cd) == [p |-> Keep(b.p, DOMAIN pd), c |-> Keep(b.c, DOMAIN cd)]

Authorize(cid, params) ==
  /\ nPending < MaxPending
  /\ cid \in DOMAIN clients
  /\ nPending' = nPending + 1
  /\ pending' = authorize(pending, nPending + 1, clients[cid], params, now)
  /\ born' = [born EXCEPT !.p = Put(@, nPending + 1,
                                    [at |-> now, params |-> params, client_id |-> cid])]
  /\ UNCHANGED <<now, clients, codes, nCodes, minted, redeemed, lastX, sessVars, fbVars, codecVars, relayVars>>

AuthorizeSubmit(pending_id, api_key) ==
  LET code == nCodes + 1
      r == authorizeSubmit(pending, codes, pending_id, api_key, code, now)
  IN /\ r.minted => nCodes < MaxCodes
     /\ pending' = r.pending
     /\ codes' = r.codes
     /\ nCodes' = IF r.minted THEN nCodes + 1 ELSE nCodes
     /\ minted' = IF r.minted
                  THEN Put(minted, code, [apiKey |-> api_key, pid |-> pending_id,
                                          client_id |-> pending[pending_id].client.client_id])
                  ELSE minted
     /\ redeemed' = IF r.minted THEN Put(redeemed, code, 0) ELSE redeemed
     /\ born' = Live([born EXCEPT !.c = IF r.minted THEN Put(@, code, [at |-> now]) ELSE @],
                     pending', codes')
     /\ lastX' = [op |-> "submit", pid |-> pending_id, wellFormed |-> api_key \in ValidKeys,
                  status |-> r.status, redirectUri |-> r.redirectUri, state |-> r.state,
                  age |-> IF pending_id \in DOMAIN born.p
                          THEN now - born.p[pending_id].at ELSE -1,
                  began |-> IF pending_id \in DOMAIN born.p
                            THEN born.p[pending_id].params ELSE NULL,
                  newCodes |-> DOMAIN codes' \ DOMAIN codes,
                  used |-> DOMAIN codes \cup DOMAIN minted,
                  codesSame |-> codes' = codes,
                  pendingSame |-> pending' = pending,
                  pendingLeft |-> DOMAIN pending \ DOMAIN pending',
                  retry |-> /\ lastX.op = "submit" /\ lastX.status = "invalid_format"
                            /\ lastX.pid = pending_id]
     /\ UNCHANGED <<now, clients, nPending, sessVars, fbVars, codecVars, relayVars>>

ExchangeAuthorizationCode(cid, code) ==
  LET r == exchangeAuthorizationCode(codes, clients[cid], code, now)
  IN /\ cid \in DOMAIN clients
     /\ codes' = r.codes
     /\ redeemed' = IF r.ok THEN [redeemed EXCEPT ![code] = @ + 1] ELSE redeemed
     /\ lastX' = [NoX EXCEPT !.op = "exchange", !.code = code, !.client_id = cid,
                             !.ok = r.ok, !.error = r.error,
                             !.access_token = r.access_token, !.token_type = r.token_type,
                             !.prior = IF code \in DOMAIN redeemed THEN redeemed[code] ELSE 0,
                             !.live = code \in DOMAIN codes /\ ~(codes[code].expiresAt < now),
                             !.age = IF code \in DOMAIN born.c
                                     THEN now - born.c[code].at ELSE -1,
                             !.codesSame = codes' = codes]
     /\ born' = Live(born, pending, codes')
     /\ UNCHANGED <<now, clients, pending, nPending, nCodes, minted, sessVars, fbVars, codecVars, relayVars>>

\* the tokens presented to requireBearerAuth
VerifyTokens == {KeyT1, KeyLegacy, KeyBad}

VerifyAccessToken(token) ==
  LET r == verifyAccessToken(token, now)
  IN /\ lastX' = [op |-> "verify", token |-> token, at |-> now, ok |-> r.ok, info |-> r.info,
                  exchanged |-> \E c \in DOMAIN minted :
                                   minted[c].apiKey = token /\ redeemed[c] > 0]
     /\ UNCHANGED <<now, clients, pending, codes, nPending, nCodes, minted, redeemed, born,
                    sessVars, fbVars, codecVars, relayVars>>

Cleanup ==
  /\ codes' = cleanupCodes(codes, now)
  /\ pending' = cleanupPending(pending, now)
  /\ <<codes', pending'>> # <<codes, pending>>
  /\ born' = Live(born, pending', codes')
  /\ UNCHANGED <<now, clients, nPending, nCodes, minted, redeemed, lastX, sessVars, fbVars, codecVars, relayVars>>

ClientIdPool == {"ateam-public"} \cup GivenClientIds \cup {GenClientIds[i] : i \in 1..Len(GenClientIds)}

NextOAuth ==
  \/ Tick
  \/ \E given \in GivenClientIds \cup {NoClientId} : RegisterClient(given)
  \/ \E cid \in ClientIdPool, params \in ParamSet : Authorize(cid, params)
  \/ \E pid \in PendingIds \cup {NoUuid}, k \in SubmittedKeys : AuthorizeSubmit(pid, k)
  \/ \E cid \in ClientIdPool, code \in CodeIds : ExchangeAuthorizationCode(cid, code)
  \/ Cleanup

-----------------------------------------------------------------------------
(* Session store: src/src/api.js *)

setSessionCredentials(ss, sessionId, tenant, apiKey) ==
  LET parsed == parseApiKey(apiKey)
      resolvedTenant == IF ~Truthy(tenant) /\ Truthy(apiKey) /\ parsed.tenant # NULL
                        THEN parsed.tenant ELSE tenant
  IN Put(ss, sessionId, [tenant |-> IF Truthy(resolvedTenant) THEN resolvedTenant ELSE MAIN,
                         apiKey |-> apiKey])

\* a plausible slip: the environment credential is not consulted
getCredentialsSessionOnly(ss, sessionId) ==
  IF sessionId \in DOMAIN ss
  THEN [tenant |-> ss[sessionId].tenant, apiKey |-> ss[sessionId].apiKey]
  ELSE [tenant |-> MAIN, apiKey |-> EMPTY]

\* a plausible slip: one credential slot shared by all sessions
getCredentialsShared(ss, sessionId) ==
  IF DOMAIN ss # {}
  THEN LET any == CHOOSE x \in DOMAIN ss : \A y \in DOMAIN ss : x >= y
       IN [tenant |-> ss[any].tenant, apiKey |-> ss[any].apiKey]
  ELSE [tenant |-> MAIN, apiKey |-> EMPTY]

\* a plausible slip: the tenant embedded in the environment key is not extracted
getCredentialsEnvTenantOnly(ss, sessionId) ==
  IF sessionId \in DOMAIN ss
  THEN [tenant |-> ss[sessionId].tenant, apiKey |-> ss[sessionId].apiKey]
  ELSE [tenant |-> IF Truthy(envTenant) THEN envTenant ELSE MAIN, apiKey |-> envKey]

getCredentials(ss, sessionId) ==
  IF sessionId \in DOMAIN ss
  THEN [tenant |-> ss[sessionId].tenant, apiKey |-> ss[sessionId].apiKey]
  ELSE LET apiKey == envKey
           parsed == parseApiKey(apiKey)
           tenant == IF ~Truthy(envTenant) /\ Truthy(apiKey) /\ parsed.tenant # NULL
                     THEN parsed.tenant ELSE envTenant
       IN [tenant |-> IF Truthy(tenant) THEN tenant ELSE MAIN, apiKey |-> apiKey]

\* apiKey.length > 0; reading .length of undefined throws a TypeError
isAuthenticatedThrows(ss, sessionId) == ~IsString(getCredentials(ss, sessionId).apiKey)
isAuthenticated(ss, sessionId) ==
  /\ ~isAuthenticatedThrows(ss, sessionId)
  /\ Len(getCredentials(ss, sessionId).apiKey) > 0

clearSession(ss, sessionId) == Del(ss, sessionId)

\* the X-ADAS-TENANT and X-API-KEY headers of a backend request (NULL: header absent)
headers(ss, sessionId) ==
  LET c == getCredentials(ss, sessionId)
  IN [tenant |-> IF Truthy(c.tenant) THEN c.tenant ELSE NULL,
      apiKey |-> IF Truthy(c.apiKey) THEN c.apiKey ELSE NULL]

-----------------------------------------------------------------------------
(* HTTP session binder: src/src/http.js, lines 1-231 *)

\* a plausible slip: a session that already has credentials is not re-seeded
seedCredentialsOnce(ss, token, sessionId) ==
  IF ~Truthy(token) \/ sessionId \in DOMAIN ss THEN ss
  ELSE IF parseApiKey(token).isValid
       THEN setSessionCredentials(ss, sessionId, parseApiKey(token).tenant, token)
       ELSE ss

\* a plausible slip: seeding is skipped
seedCredentialsNever(ss, token, sessionId) == ss

\* a plausible slip: a session that already holds the token's key is left as it is
seedCredentialsKeepsSameKey(ss, token, sessionId) ==
  IF ~Truthy(token) THEN ss
  ELSE IF sessionId \in DOMAIN ss /\ ss[sessionId].apiKey = token THEN ss
  ELSE IF parseApiKey(token).isValid
       THEN setSessionCredentials(ss, sessionId, parseApiKey(token).tenant, token)
       ELSE ss

seedCredentials(ss, token, sessionId) ==
  IF ~Truthy(token) THEN ss
  ELSE IF parseApiKey(token).isValid
       THEN setSessionCredentials(ss, sessionId, parseApiKey(token).tenant, token)
       ELSE ss

\* what requireBearerAuth leaves in req.auth.token: a token verifyAccessToken
\* accepted, or nothing when the OAuth layer is disabled
BearerTokens == {KeyT1, KeyT2, KeyLegacy}
RequestTokens == IF oauthDisabled THEN {NoToken} ELSE BearerTokens

-----------------------------------------------------------------------------
(* Tool dispatcher: src/src/tools.js, lines 1065-2374 *)

WRITE_TOOLS == {
  "ateam_build_and_run", "ateam_patch", "ateam_deploy_solution", "ateam_deploy_skill",
  "ateam_deploy_connector", "ateam_upload_connector_files", "ateam_update",
  "ateam_redeploy", "ateam_solution_chat", "ateam_get_execution_logs",
  "ateam_test_skill", "ateam_test_status", "ateam_test_abort",
  "ateam_get_connector_source", "ateam_get_metrics", "ateam_diff",
  "ateam_delete_solution" }

\* handlers that make exactly one backend request: the kind of that request
SingleRequest ==
  [ ateam_get_spec |-> "read", ateam_get_workflows |-> "read", ateam_get_examples |-> "read",
    ateam_validate_skill |-> "validate", ateam_validate_solution |-> "validate",
    ateam_deploy_solution |-> "deploy", ateam_deploy_skill |-> "deploy",
    ateam_deploy_connector |-> "deploy", ateam_upload_connector_files |-> "deploy",
    ateam_list_solutions |-> "read", ateam_get_solution |-> "read",
    ateam_update |-> "patch", ateam_redeploy |-> "redeploy",
    ateam_solution_chat |-> "chat", ateam_get_execution_logs |-> "read",
    ateam_test_skill |-> "test", ateam_test_status |-> "read",
    ateam_test_abort |-> "delete", ateam_get_connector_source |-> "read",
    ateam_get_metrics |-> "read", ateam_diff |-> "read",
    ateam_delete_solution |-> "delete" ]

HandlerNames == DOMAIN SingleRequest \cup
  {"ateam_bootstrap", "ateam_auth", "ateam_quick_start", "ateam_build_and_run", "ateam_patch"}

\* POST /deploy/solution and the like, PATCH, redeploy, DELETE
DeployOrModify == {"deploy", "patch", "redeploy", "delete"}

\* the first lines of handleToolCall: handler lookup and the WRITE_TOOLS gate
Gate(ss, name, sessionId) ==
  IF name \notin HandlerNames THEN "unknown"
  ELSE IF name \in WRITE_TOOLS
       THEN IF isAuthenticatedThrows(ss, sessionId) THEN "threw"
            ELSE IF ~isAuthenticated(ss, sessionId) THEN "refused"
            ELSE "run"
       ELSE "run"

IdleCall == [pc |-> "idle", sid |-> 0, tool |-> "", test |-> FALSE, result |-> "",
             hadEntry |-> FALSE, gateKey |-> NULL, unauthWrite |-> FALSE,
             \* history: the kinds of the requests issued so far, what validation
             \* and deployment returned, and the `phases` list of build_and_run
             sent |-> << >>, validation |-> "", deploy |-> "", phases |-> << >>,
             \* history: the entry handlers.ateam_auth stored
             wrote |-> [tenant |-> NULL, apiKey |-> NULL],
             \* history: the tenant and key headers of the call's first request
             first |-> [tenant |-> NULL, apiKey |-> NULL]]

CallSlots == 1..MaxCalls
Free(c) == calls[c].pc = "idle"

\* request(): the headers are computed from the session store when the request
\* is issued; the record keeps whether a deploy/modify request went out while
\* isAuthenticated(sessionId) was false
Issue(call, kind, ss) ==
  [call EXCEPT !.unauthWrite = @ \/ (kind \in DeployOrModify
                                      /\ ~isAuthenticatedThrows(ss, call.sid)
                                      /\ ~isAuthenticated(ss, call.sid)),
               !.sent = Append(@, kind),
               !.first = IF call.sent = << >> THEN headers(ss, call.sid) ELSE @]

\* the handler returns; what it stored and the headers of its first request are
\* not kept further
Finish(call, result) ==
  [call EXCEPT !.pc = "done", !.result = result,
               !.wrote = IdleCall.wrote, !.first = IdleCall.first]

\* handlers.ateam_auth up to its await
AuthStore(ss, sessionId, api_key, tenant) ==
  LET resolvedTenant == IF Truthy(tenant) THEN tenant
                        ELSE IF parseApiKey(api_key).tenant # NULL
                             THEN parseApiKey(api_key).tenant ELSE MAIN
  IN setSessionCredentials(ss, sessionId, resolvedTenant, api_key)

\* the handler up to its first await, for a call that passed the gate
FirstStep(call, args, ss) ==
  CASE call.tool = "ateam_bootstrap" -> Finish(call, "returned")
    [] call.tool = "ateam_auth" ->
         [Issue(call, "read", ss) EXCEPT !.pc = "auth_verify"]
    [] call.tool = "ateam_quick_start" ->
         IF ~args.tools THEN Finish(call, "ok_false")
         ELSE [Issue(call, "validate", ss) EXCEPT !.pc = "validate"]
    [] call.tool = "ateam_build_and_run" ->
         [Issue(call, "validate", ss) EXCEPT !.pc = "validate"]
    [] call.tool = "ateam_patch" ->
         [Issue(call, "patch", ss) EXCEPT !.pc = "update"]
    [] OTHER ->
         [Issue(call, SingleRequest[call.tool], ss) EXCEPT !.pc = "single"]

\* handleToolCall(name, args, sessionId) up to the handler's first await
handleToolCall(ss, name, args, sessionId) ==
  LET g == Gate(ss, name, sessionId)
      ss1 == IF g = "run" /\ name = "ateam_auth"
             THEN AuthStore(ss, sessionId, args.api_key, args.tenant) ELSE ss
      call0 == [IdleCall EXCEPT !.sid = sessionId, !.tool = name, !.test = args.test,
                                !.wrote = IF g = "run" /\ name = "ateam_auth"
                                          THEN ss1[sessionId] ELSE @]
  IN [sessions |-> ss1,
      call |-> CASE g = "unknown" -> Finish(call0, "unknown_tool")
                 [] g = "refused" -> Finish(call0, "auth_required")
                 [] g = "threw"   -> Finish(call0, "threw")
                 [] OTHER         -> FirstStep(call0, args, ss1)]

-----------------------------------------------------------------------------
(* Actions of the HTTP transport *)

ConnIds == 1..(MaxConns + MaxStoreConns)

\* the api_key and tenant arguments of ateam_auth
AuthArguments == { <<KeyT2, UNDEFINED>>, <<KeyT1, TenantT2>>, <<EMPTY, UNDEFINED>>,
                   <<UNDEFINED, UNDEFINED>> }
NoArgs == [tools |-> FALSE, test |-> FALSE, api_key |-> UNDEFINED, tenant |-> UNDEFINED]

\* the tool names and arguments the model's clients send
StoreToolCalls ==
  {[name |-> "ateam_bootstrap", args |-> NoArgs]}
  \cup {[name |-> "ateam_auth", args |-> [NoArgs EXCEPT !.api_key = a[1], !.tenant = a[2]]] :
          a \in AuthArguments}

ToolCalls ==
  StoreToolCalls
  \cup {[name |-> n, args |-> NoArgs] :
          n \in {"ateam_get_spec", "ateam_deploy_solution", "no_such_tool"}}
  \cup {[name |-> "ateam_quick_start", args |-> [NoArgs EXCEPT !.tools = b]] : b \in BOOLEAN}
  \cup {[name |-> n, args |-> [NoArgs EXCEPT !.test = b]] :
          n \in {"ateam_build_and_run", "ateam_patch"}, b \in BOOLEAN}

\* history of the arguments setSessionCredentials was last called with
SeedArgs(ls, token, sessionId) ==
  IF Truthy(token) /\ parseApiKey(token).isValid
  THEN Put(ls, sessionId, [tenant |-> parseApiKey(token).tenant, apiKey |-> token])
  ELSE ls

AuthArgs(ls, sessionId, api_key, tenant) ==
  Put(ls, sessionId,
      [tenant |-> IF Truthy(tenant) THEN tenant
                  ELSE IF parseApiKey(api_key).tenant # NULL
                       THEN parseApiKey(api_key).tenant ELSE MAIN,
       apiKey |-> api_key])

\* mcpPost, new-session branch, up to `await server.connect(transport)`
McpPostInit(token, limit) ==
  LET newSessionId == Cardinality(DOMAIN conns) + 1
  IN /\ Cardinality(DOMAIN conns) < limit
     /\ token \in RequestTokens
     /\ sessions' = seedCredentials(sessions, token, newSessionId)
     /\ lastSet' = SeedArgs(lastSet, token, newSessionId)
     /\ conns' = Put(conns, newSessionId, [pc |-> "connecting", token |-> token])
     /\ UNCHANGED <<envKey, envTenant, oauthDisabled, transports, calls, done, oauthVars, fbVars, codecVars, relayVars>>

\* mcpPost, new-session branch: transport.handleRequest either initializes the
\* transport (onsessioninitialized registers it) or answers the request without
\* initializing it (the SDK's 406/415/400 replies, or an exception caught by mcpPost)
McpPostHandoff(sid, initialized) ==
  /\ sid \in DOMAIN conns /\ conns[sid].pc = "connecting"
  /\ conns' = [conns EXCEPT ![sid].pc = IF initialized THEN "open" ELSE "failed"]
  /\ transports' = IF initialized THEN transports \cup {sid} ELSE transports
  /\ UNCHANGED <<envKey, envTenant, oauthDisabled, sessions, calls, done, lastSet, oauthVars, fbVars, codecVars, relayVars>>

\* mcpPost, existing-session branch, with a tools/call request: seedCredentials,
\* then the transport hands the request to handleToolCall, which runs up to the
\* handler's first await
McpPostToolCall(sid, token, tc) ==
  LET seeded == seedCredentials(sessions, token, sid)
      r == handleToolCall(seeded, tc.name, tc.args, sid)
      c == CHOOSE x \in CallSlots : Free(x) /\ \A y \in CallSlots : Free(y) => x <= y
      \* history: what the call found in the session store when it arrived
      call == [r.call EXCEPT !.hadEntry = sid \in DOMAIN seeded,
                             !.gateKey = IF sid \in DOMAIN seeded THEN seeded[sid].apiKey
                                         ELSE envKey]
      ran == Gate(seeded, tc.name, sid) = "run" /\ tc.name = "ateam_auth"
  IN /\ sid \in transports
     /\ token \in RequestTokens
     /\ \E x \in CallSlots : Free(x)
     /\ sessions' = r.sessions
     /\ lastSet' = IF ran THEN AuthArgs(SeedArgs(lastSet, token, sid), sid,
                                        tc.args.api_key, tc.args.tenant)
                   ELSE SeedArgs(lastSet, token, sid)
     /\ calls' = [calls EXCEPT ![c] = IF call.pc = "done" THEN IdleCall ELSE call]
     /\ done' = IF call.pc = "done" THEN call ELSE done
     /\ UNCHANGED <<envKey, envTenant, oauthDisabled, transports, conns, oauthVars, fbVars, codecVars, relayVars>>

\* mcpPost, existing-session branch, with a request that calls no tool
\* (notifications/initialized, tools/list, ping): seedCredentials only
McpPostOther(sid, token) ==
  /\ sid \in transports
  /\ token \in RequestTokens
  /\ sessions' = seedCredentials(sessions, token, sid)
  /\ lastSet' = SeedArgs(lastSet, token, sid)
  /\ UNCHANGED <<envKey, envTenant, oauthDisabled, transports, conns, calls, done,
                 oauthVars, fbVars, codecVars, relayVars>>

\* mcpDelete on a registered session: the transport closes and onclose runs
McpDelete(sid) ==
  /\ sid \in transports
  /\ transports' = transports \ {sid}
  /\ sessions' = clearSession(sessions, sid)
  /\ lastSet' = Del(lastSet, sid)
  /\ conns' = [conns EXCEPT ![sid].pc = "closed"]
  /\ UNCHANGED <<envKey, envTenant, oauthDisabled, calls, done, oauthVars, fbVars, codecVars, relayVars>>

\* the mcp-session-id header is absent
NoSessionId == 0
\* a session id that names a property every object inherits ("constructor",
\* "__proto__", "toString"): `transports` is a plain object, so the lookup
\* transports[sessionId] is truthy for it although no transport is registered
InheritedId == 0 - 1
RequestIds == ConnIds \cup {NoSessionId, InheritedId}

\* `sessionId && transports[sessionId]`
HasTransport(tr, sessionId) ==
  sessionId # NoSessionId /\ (sessionId \in tr \/ sessionId = InheritedId)

\* mcpPost for a request that no registered transport takes and that opens no
\* session: the 400 reply of the last branch, or, when the lookup found an
\* inherited property, seedCredentials and then the TypeError of
\* transport.handleRequest, which the catch block answers with 500
mcpPostUnregistered(ss, tr, sessionId, token, isInitialize) ==
  IF HasTransport(tr, sessionId)
  THEN [sessions |-> seedCredentials(ss, token, sessionId), status |-> 500]
  ELSE IF sessionId = NoSessionId /\ isInitialize
       THEN [sessions |-> ss, status |-> 200]
       ELSE [sessions |-> ss, status |-> 400]

McpPostUnregistered(sessionId, token, isInitialize) ==
  /\ sessionId \notin transports
  /\ ~(sessionId = NoSessionId /\ isInitialize)
  /\ token \in RequestTokens
  /\ sessions' = mcpPostUnregistered(sessions, transports, sessionId, token,
                                      isInitialize).sessions
  /\ lastSet' = IF HasTransport(transports, sessionId)
                THEN SeedArgs(lastSet, token, sessionId) ELSE lastSet
  /\ UNCHANGED <<envKey, envTenant, oauthDisabled, transports, conns, calls, done,
                 oauthVars, fbVars, codecVars, relayVars>>

-----------------------------------------------------------------------------
(* Continuations of the tool handlers after each await *)

CallFrame == <<envKey, envTenant, oauthDisabled, sessions, transports, conns, lastSet,
               oauthVars, fbVars, codecVars, relayVars>>

\* the call in slot c moves on; a call that has returned frees its slot
Continue(c, next) ==
  /\ calls' = [calls EXCEPT ![c] = IF next.pc = "done" THEN IdleCall ELSE next]
  /\ done' = IF next.pc = "done" THEN next ELSE done
  /\ UNCHANGED CallFrame

\* a plausible slip: a failed verification drops the entry
AuthVerifyReturnsClears(c, ok) ==
  LET next == Finish(calls[c], IF ok THEN "ok_true" ELSE "ok_false")
  IN /\ calls[c].pc = "auth_verify"
     /\ calls' = [calls EXCEPT ![c] = IdleCall]
     /\ done' = next
     /\ sessions' = IF ok THEN sessions ELSE clearSession(sessions, calls[c].sid)
     /\ UNCHANGED <<envKey, envTenant, oauthDisabled, transports, conns, lastSet,
                    oauthVars, fbVars, codecVars, relayVars>>

\* handlers.ateam_auth: get("/deploy/solutions") returned or threw
AuthVerifyReturns(c, ok) ==
  /\ calls[c].pc = "auth_verify"
  /\ Continue(c, Finish(calls[c], IF ok THEN "ok_true" ELSE "ok_false"))

\* a handler with one request: the request returned or threw
SingleReturns(c, ok) ==
  /\ calls[c].pc = "single"
  /\ Continue(c, Finish(calls[c], IF ok THEN "returned" ELSE "error"))

\* ateam_build_and_run, phase 1: post("/validate/solution")
ValidateReturns(c, out) ==
  LET call == [calls[c] EXCEPT !.validation = out,
                               !.phases = IF out = "throw" THEN @
                                          ELSE Append(@, "validate:done")]
  IN /\ calls[c].pc = "validate"
     /\ Continue(c, IF out = "clean"
                    THEN [Issue(call, "deploy", sessions) EXCEPT !.pc = "deploy"]
                    ELSE Finish(call, "ok_false"))

\* ateam_build_and_run, phase 2: post("/deploy/solution")
\* a plausible slip: deploy.ok is not looked at
DeployReturnsIgnoresOk(c, out) ==
  LET call == [calls[c] EXCEPT !.deploy = out,
                               !.phases = IF out = "throw" THEN @
                                          ELSE IF out = "ok" THEN Append(@, "deploy:done")
                                          ELSE Append(@, "deploy:failed")]
  IN /\ calls[c].pc = "deploy"
     /\ Continue(c, IF out # "throw" THEN [call EXCEPT !.pc = "sleep"]
                    ELSE Finish(call, "ok_false"))

DeployReturns(c, out) ==
  LET call == [calls[c] EXCEPT !.deploy = out,
                               !.phases = IF out = "throw" THEN @
                                          ELSE IF out = "ok" THEN Append(@, "deploy:done")
                                          ELSE Append(@, "deploy:failed")]
  IN /\ calls[c].pc = "deploy"
     /\ Continue(c, IF out = "ok" THEN [call EXCEPT !.pc = "sleep"]
                    ELSE Finish(call, "ok_false"))

\* ateam_build_and_run, phase 3: sleep(2000) is over, get(".../health")
SleepDone(c) ==
  /\ calls[c].pc = "sleep"
  /\ Continue(c, [Issue(calls[c], "read", sessions) EXCEPT !.pc = "health"])

\* ateam_build_and_run, phase 3 returned or threw; phase 4 is optional
HealthReturns(c, ok) ==
  LET call == [calls[c] EXCEPT !.phases = Append(@, IF ok THEN "health:done"
                                                    ELSE "health:error")]
  IN /\ calls[c].pc = "health"
     /\ Continue(c, IF call.test
                    THEN [Issue(call, "test", sessions) EXCEPT !.pc = "test"]
                    ELSE Finish(call, "ok_true"))

\* ateam_build_and_run, phase 4 returned or threw
TestReturns(c, ok) ==
  LET call == [calls[c] EXCEPT !.phases = Append(@, IF ok THEN "test:done"
                                                    ELSE "test:error")]
  IN /\ calls[c].pc = "test"
     /\ Continue(c, Finish(call, "ok_true"))

\* ateam_patch, phase 1: patch(...)
UpdateReturns(c, ok) ==
  /\ calls[c].pc = "update"
  /\ Continue(c, IF ok
                 THEN [Issue(calls[c], "redeploy", sessions) EXCEPT !.pc = "redeploy"]
                 ELSE Finish(calls[c], "ok_false"))

\* ateam_patch, phase 2: post(".../redeploy"); phase 3 starts with sleep(1000)
RedeployReturns(c, ok) ==
  /\ calls[c].pc = "redeploy"
  /\ Continue(c, IF ~ok THEN Finish(calls[c], "ok_false")
                 ELSE IF calls[c].test THEN [calls[c] EXCEPT !.pc = "patch_sleep"]
                 ELSE Finish(calls[c], "ok_true"))

PatchSleepDone(c) ==
  /\ calls[c].pc = "patch_sleep"
  /\ Continue(c, [Issue(calls[c], "test", sessions) EXCEPT !.pc = "patch_test"])

PatchTestReturns(c, ok) ==
  /\ calls[c].pc = "patch_test"
  /\ Continue(c, Finish(calls[c], "ok_true"))

-----------------------------------------------------------------------------
(* Specification of the session store, the HTTP binder and the dispatcher.  *)
(* ENV_API_KEY, ENV_TENANT and ATEAM_OAUTH_DISABLED are fixed when the      *)
(* process starts.                                                          *)

EnvKeys    == {EMPTY, KeyLegacy}
EnvTenants == {EMPTY}

InitSess ==
  /\ envKey \in EnvKeys /\ envTenant \in EnvTenants /\ oauthDisabled \in BOOLEAN
  /\ sessions = EmptyMap /\ transports = {} /\ conns = EmptyMap
  /\ calls = [c \in CallSlots |-> IdleCall] /\ done = IdleCall
  /\ lastSet = EmptyMap
  /\ now = 0
  /\ clients = Put(EmptyMap, "ateam-public", PublicClient)
  /\ pending = EmptyMap /\ codes = EmptyMap
  /\ nPending = 0 /\ nCodes = 0
  /\ minted = EmptyMap /\ redeemed = EmptyMap /\ lastX = NoX /\ born = NoBorn
  /\ fbNow = 0 /\ fbSessions = EmptyMap /\ fallback = EmptyMap /\ fbLast = 0 /\ justSwept = FALSE
  /\ input = NoInput /\ returned = NotParsed
  /\ rNow = 0 /\ recentTokens = << >> /\ lastRelay = NoRelay

NextSess ==
  \/ \E token \in BearerTokens \cup {NoToken} : McpPostInit(token, MaxConns)
  \/ \E sid \in ConnIds, initialized \in BOOLEAN : McpPostHandoff(sid, initialized)
  \/ \E sid \in ConnIds, token \in BearerTokens \cup {NoToken}, tc \in ToolCalls :
        McpPostToolCall(sid, token, tc)
  \/ \E sid \in ConnIds, token \in BearerTokens \cup {NoToken} : McpPostOther(sid, token)
  \/ \E sid \in ConnIds : McpDelete(sid)
  \/ \E c \in CallSlots, ok \in BOOLEAN : AuthVerifyReturns(c, ok)
  \/ \E c \in CallSlots, ok \in BOOLEAN : SingleReturns(c, ok)
  \/ \E c \in CallSlots, out \in {"throw", "errors", "clean"} : ValidateReturns(c, out)
  \/ \E c \in CallSlots, out \in {"throw", "notok", "ok"} : DeployReturns(c, out)
  \/ \E c \in CallSlots : SleepDone(c)
  \/ \E c \in CallSlots, ok \in BOOLEAN : HealthReturns(c, ok)
  \/ \E c \in CallSlots, ok \in BOOLEAN : TestReturns(c, ok)
  \/ \E c \in CallSlots, ok \in BOOLEAN : UpdateReturns(c, ok)
  \/ \E c \in CallSlots, ok \in BOOLEAN : RedeployReturns(c, ok)
  \/ \E c \in CallSlots : PatchSleepDone(c)
  \/ \E c \in CallSlots, ok \in BOOLEAN : PatchTestReturns(c, ok)

SpecSess == InitSess /\ [][NextSess]_vars

-----------------------------------------------------------------------------
(* Specification of the session store alone: two connections, and only the  *)
(* tool calls that write the store.                                         *)

StoreTokens == {KeyT1, KeyT2, NoToken}

NextStore ==
  \/ \E token \in StoreTokens : McpPostInit(token, MaxStoreConns)
  \/ \E sid \in ConnIds, initialized \in BOOLEAN : McpPostHandoff(sid, initialized)
  \/ \E sid \in ConnIds, token \in StoreTokens, tc \in StoreToolCalls :
        McpPostToolCall(sid, token, tc)
  \/ \E sid \in ConnIds, token \in StoreTokens : McpPostOther(sid, token)
  \/ \E sid \in ConnIds : McpDelete(sid)
  \/ \E c \in CallSlots, ok \in BOOLEAN : AuthVerifyReturns(c, ok)

SpecStore == InitSess /\ [][NextStore]_vars

-----------------------------------------------------------------------------
(* Specification of the session store under every kind of environment:      *)
(* ADAS_API_KEY unset, legacy, tenant-embedded or malformed, ADAS_TENANT     *)
(* unset or set.  One connection; the other session ids never get an entry. *)

WideEnvKeys    == {EMPTY, KeyLegacy, KeyT1, KeyBad}
WideEnvTenants == {EMPTY, TenantT2}

InitEnv ==
  /\ envKey \in WideEnvKeys /\ envTenant \in WideEnvTenants /\ oauthDisabled \in BOOLEAN
  /\ sessions = EmptyMap /\ transports = {} /\ conns = EmptyMap
  /\ calls = [c \in CallSlots |-> IdleCall] /\ done = IdleCall
  /\ lastSet = EmptyMap
  /\ now = 0
  /\ clients = Put(EmptyMap, "ateam-public", PublicClient)
  /\ pending = EmptyMap /\ codes = EmptyMap
  /\ nPending = 0 /\ nCodes = 0
  /\ minted = EmptyMap /\ redeemed = EmptyMap /\ lastX = NoX /\ born = NoBorn
  /\ fbNow = 0 /\ fbSessions = EmptyMap /\ fallback = EmptyMap /\ fbLast = 0 /\ justSwept = FALSE
  /\ input = NoInput /\ returned = NotParsed
  /\ rNow = 0 /\ recentTokens = << >> /\ lastRelay = NoRelay

NextEnv ==
  \/ \E token \in StoreTokens : McpPostInit(token, MaxConns)
  \/ \E sid \in ConnIds, initialized \in BOOLEAN : McpPostHandoff(sid, initialized)
  \/ \E sid \in ConnIds, token \in StoreTokens, tc \in StoreToolCalls :
        McpPostToolCall(sid, token, tc)
  \/ \E sid \in ConnIds, token \in StoreTokens : McpPostOther(sid, token)
  \/ \E sid \in ConnIds : McpDelete(sid)
  \/ \E c \in CallSlots, ok \in BOOLEAN : AuthVerifyReturns(c, ok)

SpecEnv == InitEnv /\ [][NextEnv]_vars

-----------------------------------------------------------------------------
(* Specification of the HTTP binder with the requests that name no          *)
(* registered session: one connection, the tool calls that write the store. *)

NextClose ==
  \/ \E token \in StoreTokens : McpPostInit(token, MaxConns)
  \/ \E sid \in ConnIds, initialized \in BOOLEAN : McpPostHandoff(sid, initialized)
  \/ \E sid \in ConnIds, token \in StoreTokens, tc \in StoreToolCalls :
        McpPostToolCall(sid, token, tc)
  \/ \E sid \in ConnIds, token \in StoreTokens : McpPostOther(sid, token)
  \/ \E sid \in ConnIds : McpDelete(sid)
  \/ \E c \in CallSlots, ok \in BOOLEAN : AuthVerifyReturns(c, ok)
  \/ \E sessionId \in RequestIds, token \in StoreTokens, isInitialize \in BOOLEAN :
        McpPostUnregistered(sessionId, token, isInitialize)

SpecClose == InitSess /\ [][NextClose]_vars

-----------------------------------------------------------------------------
(* Specification of the OAuth bridge.  The session store and the fallback   *)
(* cache are not exercised and stay as constructed.                         *)

InitOAuth ==
  /\ now = 0
  /\ clients = Put(EmptyMap, "ateam-public", PublicClient)
  /\ pending = EmptyMap /\ codes = EmptyMap
  /\ nPending = 0 /\ nCodes = 0
  /\ minted = EmptyMap /\ redeemed = EmptyMap /\ lastX = NoX /\ born = NoBorn
  /\ envKey = EMPTY /\ envTenant = EMPTY /\ oauthDisabled = FALSE
  /\ sessions = EmptyMap /\ transports = {} /\ conns = EmptyMap
  /\ calls = EmptyMap /\ done = 0 /\ lastSet = EmptyMap
  /\ fbNow = 0 /\ fbSessions = EmptyMap /\ fallback = EmptyMap /\ fbLast = 0 /\ justSwept = FALSE
  /\ input = NoInput /\ returned = NotParsed
  /\ rNow = 0 /\ recentTokens = << >> /\ lastRelay = NoRelay

SpecOAuth == InitOAuth /\ [][NextOAuth]_vars

-----------------------------------------------------------------------------
(* Specification of the bearer check next to the OAuth bridge: tokens are   *)
(* verified while the statically registered client runs authorizations.     *)

NextVerify ==
  \/ Tick
  \/ \E params \in ParamSet : Authorize("ateam-public", params)
  \/ \E pid \in PendingIds \cup {NoUuid}, k \in SubmittedKeys : AuthorizeSubmit(pid, k)
  \/ \E code \in CodeIds : ExchangeAuthorizationCode("ateam-public", code)
  \/ \E token \in VerifyTokens : VerifyAccessToken(token)
  \/ Cleanup

SpecVerify == InitOAuth /\ [][NextVerify]_vars

-----------------------------------------------------------------------------
(* Specification of the credential codec alone: parseApiKey is applied to   *)
(* one value.  The value is put together from a prefix, a tenant and a hex  *)
(* suffix; each part is listed with whether it is of the accepted form.     *)

Rep(c, n) == [i \in 1..n |-> c]
Part(str, ok) == [s |-> str, ok |-> ok]

Prefixes ==
  { Part(ADAS_, TRUE),
    Part(<<"A","D","A","S","_">>, FALSE),      \* upper case
    Part(<<"a","d","a","s","-">>, FALSE),      \* no underscore
    Part(<<"x">> \o ADAS_, FALSE) }            \* something before adas_

TenantParts ==
  { Part(<<"t","1">>, TRUE),
    Part(<<"a","b","-","c","d">>, TRUE),
    Part(<<"a","-","-","b">>, TRUE),
    Part(Rep("a", TenantMidMax + 2), TRUE),    \* the longest tenant
    Part(Rep("0", TenantMidMax + 2), TRUE),
    Part(Rep("a", TenantMidMax + 3), FALSE),   \* one character too long
    Part(Rep("f", HexLen), FALSE),
    Part(<<"a">>, FALSE),                      \* one character
    Part(<< >>, FALSE),
    Part(<<"-","a">>, FALSE),
    Part(<<"a","-">>, FALSE),
    Part(<<"A","b">>, FALSE),
    Part(<<"a","_","b">>, FALSE),
    Part(<<"a",".","b">>, FALSE) }

HexParts ==
  { Part(Rep("a", HexLen), TRUE),
    Part(Rep("0", HexLen), TRUE),
    Part(<<"0","1","2","3","4","5","6","7","8","9","a","b","c","d","e","f">>
           \o Rep("f", HexLen - 16), TRUE),
    Part(Rep("a", HexLen - 1), FALSE),
    Part(Rep("a", HexLen + 1), FALSE),
    Part(Rep("a", HexLen - 1) \o <<"g">>, FALSE),
    Part(<<"A">> \o Rep("a", HexLen - 1), FALSE),
    Part(Rep("a", HexLen) \o <<"\n">>, FALSE) }

\* adas_<tenant>_<hex>, adas_<hex>, and the values that are no non-empty string
CodecInputs ==
  { [key |-> p.s \o t.s \o <<"_">> \o h.s,
     expect |-> IF p.ok /\ t.ok /\ h.ok THEN [tenant |-> t.s, isValid |-> TRUE]
                ELSE [tenant |-> NULL, isValid |-> FALSE]] :
       p \in Prefixes, t \in TenantParts, h \in HexParts }
  \cup
  { [key |-> p.s \o h.s, expect |-> [tenant |-> NULL, isValid |-> p.ok /\ h.ok]] :
       p \in Prefixes, h \in HexParts }
  \cup
  { [key |-> v, expect |-> [tenant |-> NULL, isValid |-> FALSE]] :
       v \in {NULL, UNDEFINED, OBJECT, EMPTY} }

ParseApiKey ==
  /\ ~returned.called
  /\ returned' = [called |-> TRUE, tenant |-> parseApiKey(input.key).tenant,
                  isValid |-> parseApiKey(input.key).isValid]
  /\ UNCHANGED <<input, oauthVars, sessVars, fbVars, relayVars>>

InitCodec ==
  /\ input \in CodecInputs /\ returned = NotParsed
  /\ rNow = 0 /\ recentTokens = << >> /\ lastRelay = NoRelay
  /\ fbNow = 0 /\ fbSessions = EmptyMap /\ fallback = EmptyMap /\ fbLast = 0 /\ justSwept = FALSE
  /\ now = 0
  /\ clients = Put(EmptyMap, "ateam-public", PublicClient)
  /\ pending = EmptyMap /\ codes = EmptyMap
  /\ nPending = 0 /\ nCodes = 0
  /\ minted = EmptyMap /\ redeemed = EmptyMap /\ lastX = NoX /\ born = NoBorn
  /\ envKey = EMPTY /\ envTenant = EMPTY /\ oauthDisabled = FALSE
  /\ sessions = EmptyMap /\ transports = {} /\ conns = EmptyMap
  /\ calls = EmptyMap /\ done = 0 /\ lastSet = EmptyMap

NextCodec == ParseApiKey

SpecCodec == InitCodec /\ [][NextCodec]_vars

-----------------------------------------------------------------------------
(* Specification of the consent step with its timers: time passes and the   *)
(* cleanup interval keeps firing.  An authorization is begun only while the *)
(* clock of the model can still see its pending record expire.              *)

AuthorizeInTime(cid, params) ==
  /\ now + PENDING_TTL + TickStep <= MaxTime
  /\ Authorize(cid, params)

NextPending ==
  \/ Tick
  \/ \E cid \in ClientIdPool, params \in ParamSet : AuthorizeInTime(cid, params)
  \/ \E pid \in PendingIds \cup {NoUuid}, k \in SubmittedKeys : AuthorizeSubmit(pid, k)
  \/ Cleanup

SpecPending ==
  InitOAuth /\ [][NextPending]_vars /\ WF_vars(Tick) /\ WF_vars(Cleanup)

-----------------------------------------------------------------------------
(* Tenant fallback cache.  src/ holds no fallback cache; this part follows   *)
(* the specification, sections 3, 4.2 (set, clear) and 4.3 (seed).  Time is  *)
(* counted in half hours.                                                    *)

FALLBACK_TTL == 2                      \* 60 minutes
SESSION_TTL == 2                       \* 60 minutes
MaxFbSessions == 2

FbSessionIds == 1..MaxFbSessions
FbTenants == {TenantT1, TenantT2}

\* the credentials each tenant's users establish
KeyT1b == ADAS_ \o <<"t","1">> \o <<"_">> \o Hex32("d")
KeyT2b == ADAS_ \o <<"t","2">> \o <<"_">> \o Hex32("e")
CredsOf(tenant) == IF tenant = TenantT1 THEN {KeyT1, KeyT1b} ELSE {KeyT2, KeyT2b}

NoEntry == [credential |-> NULL, created_at |-> 0]

\* SessionStore.set: upsert, and write or refresh the tenant's fallback entry
fbSet(fs, fb, sessionId, tenant, credential, t) ==
  [sessions |-> Put(fs, sessionId, [tenant |-> tenant, credential |-> credential,
                                    last_activity_at |-> t]),
   fallback |-> Put(fb, tenant, [credential |-> credential, created_at |-> t])]

fbExpired(e, t) == t - e.created_at > FALLBACK_TTL

\* the non-expired entry of the tenant, or NoEntry
fbLookup(fb, tenant, t) ==
  IF tenant \in DOMAIN fb /\ ~fbExpired(fb[tenant], t) THEN fb[tenant] ELSE NoEntry

\* a plausible slip: the newest non-expired entry of any tenant
fbSeedNewest(fs, fb, sessionId, tenant, t) ==
  LET live == {x \in DOMAIN fb : ~fbExpired(fb[x], t)}
  IN IF live = {} THEN [sessions |-> fs, fallback |-> fb, ok |-> FALSE]
     ELSE LET n == CHOOSE x \in live : \A y \in live :
                      /\ fb[x].created_at >= fb[y].created_at
                      /\ (fb[x].created_at = fb[y].created_at /\ x # tenant) => y # tenant
              r == fbSet(fs, fb, sessionId, tenant, fb[n].credential, t)
          IN [sessions |-> r.sessions, fallback |-> r.fallback, ok |-> TRUE]

\* TenantFallbackCache.seed(sessionId, tenant) -> bool
fbSeed(fs, fb, sessionId, tenant, t) ==
  LET e == fbLookup(fb, tenant, t)
  IN IF e = NoEntry THEN [sessions |-> fs, fallback |-> fb, ok |-> FALSE]
     ELSE LET r == fbSet(fs, fb, sessionId, tenant, e.credential, t)
          IN [sessions |-> r.sessions, fallback |-> r.fallback, ok |-> TRUE]

\* SessionStore.touch: refresh last_activity_at; nothing for an absent session
fbTouch(fs, sessionId, t) ==
  IF sessionId \in DOMAIN fs THEN [fs EXCEPT ![sessionId].last_activity_at = t] ELSE fs

\* a plausible slip: a sweep that stops after the first session it deletes
fbSweepOne(fs, t) ==
  LET stale == {x \in DOMAIN fs : t - fs[x].last_activity_at > SESSION_TTL}
  IN IF stale = {} THEN [sessions |-> fs, count |-> 0]
     ELSE LET first == CHOOSE x \in stale : \A y \in stale : x <= y
          IN [sessions |-> Del(fs, first), count |-> 1]

\* SessionStore.sweep() -> count
fbSweep(fs, t) ==
  LET stale == {x \in DOMAIN fs : t - fs[x].last_activity_at > SESSION_TTL}
  IN [sessions |-> Keep(fs, DOMAIN fs \ stale), count |-> Cardinality(stale)]

NoSeed == [op |-> "none", sid |-> 0, tenant |-> NULL, ok |-> FALSE, got |-> NULL,
           changed |-> FALSE, otherNewer |-> FALSE]

FbFrame == <<oauthVars, sessVars, codecVars, relayVars>>

FbTick ==
  /\ fbNow < MaxFbTime
  /\ fbNow' = fbNow + 1
  /\ justSwept' = FALSE
  /\ UNCHANGED <<fbSessions, fallback, fbLast, FbFrame>>

\* a session authenticates explicitly with a credential of its tenant
FbSet(sessionId, tenant, credential) ==
  LET r == fbSet(fbSessions, fallback, sessionId, tenant, credential, fbNow)
  IN /\ credential \in CredsOf(tenant)
     /\ fbSessions' = r.sessions
     /\ fallback' = r.fallback
     /\ justSwept' = FALSE
     /\ UNCHANGED <<fbNow, fbLast, FbFrame>>

\* a new session of a known tenant is seeded from the cache
FbSeed(sessionId, tenant) ==
  LET r == fbSeed(fbSessions, fallback, sessionId, tenant, fbNow)
  IN /\ sessionId \notin DOMAIN fbSessions
     /\ fbSessions' = r.sessions
     /\ fallback' = r.fallback
     /\ fbLast' = [op |-> "seed", sid |-> sessionId, tenant |-> tenant, ok |-> r.ok,
                   got |-> IF sessionId \in DOMAIN fbSessions'
                           THEN fbSessions'[sessionId].credential ELSE NULL,
                   changed |-> fbSessions' # fbSessions \/ fallback' # fallback,
                   otherNewer |-> \E o \in DOMAIN fallback :
                                    /\ o # tenant /\ tenant \in DOMAIN fallback
                                    /\ fbNow - fallback[o].created_at <= FALLBACK_TTL
                                    /\ fallback[o].created_at > fallback[tenant].created_at]
     /\ justSwept' = FALSE
     /\ UNCHANGED <<fbNow, FbFrame>>

\* SessionStore.clear
FbClear(sessionId) ==
  /\ sessionId \in DOMAIN fbSessions
  /\ fbSessions' = Del(fbSessions, sessionId)
  /\ justSwept' = FALSE
  /\ UNCHANGED <<fbNow, fallback, fbLast, FbFrame>>

\* a call on a session records its activity
FbTouch(sessionId) ==
  /\ fbSessions' = fbTouch(fbSessions, sessionId, fbNow)
  /\ justSwept' = FALSE
  /\ UNCHANGED <<fbNow, fallback, fbLast, FbFrame>>

\* the sweep timer fires
FbSweep ==
  LET r == fbSweep(fbSessions, fbNow)
  IN /\ fbSessions' = r.sessions
     /\ fbLast' = [op |-> "sweep", count |-> r.count, again |-> justSwept,
                   before |-> IF justSwept THEN fbLast.count ELSE 0]
     /\ justSwept' = TRUE
     /\ UNCHANGED <<fbNow, fallback, FbFrame>>

InitFallback ==
  /\ fbNow = 0 /\ fbSessions = EmptyMap /\ fallback = EmptyMap /\ fbLast = NoSeed /\ justSwept = FALSE
  /\ input = NoInput /\ returned = NotParsed
  /\ rNow = 0 /\ recentTokens = << >> /\ lastRelay = NoRelay
  /\ now = 0
  /\ clients = Put(EmptyMap, "ateam-public", PublicClient)
  /\ pending = EmptyMap /\ codes = EmptyMap
  /\ nPending = 0 /\ nCodes = 0
  /\ minted = EmptyMap /\ redeemed = EmptyMap /\ lastX = NoX /\ born = NoBorn
  /\ envKey = EMPTY /\ envTenant = EMPTY /\ oauthDisabled = FALSE
  /\ sessions = EmptyMap /\ transports = {} /\ conns = EmptyMap
  /\ calls = EmptyMap /\ done = 0 /\ lastSet = EmptyMap

NextFallback ==
  \/ FbTick
  \/ \E sid \in FbSessionIds, tenant \in FbTenants :
        \E credential \in CredsOf(tenant) : FbSet(sid, tenant, credential)
  \/ \E sid \in FbSessionIds, tenant \in FbTenants : FbSeed(sid, tenant)
  \/ \E sid \in FbSessionIds : FbClear(sid)

SpecFallback == InitFallback /\ [][NextFallback]_vars

\* the session store with its activity clock and its sweep; sessions are
\* created by explicit authentication
NextSweep ==
  \/ FbTick
  \/ \E sid \in FbSessionIds, tenant \in FbTenants :
        \E credential \in CredsOf(tenant) : FbSet(sid, tenant, credential)
  \/ \E sid \in FbSessionIds : FbTouch(sid)
  \/ \E sid \in FbSessionIds : FbClear(sid)
  \/ FbSweep

SpecSweep == InitFallback /\ [][NextSweep]_vars

-----------------------------------------------------------------------------
(* Claims about the OAuth bridge, checked under SpecOAuth *)

\* C1: an authorization code minted by a consent submission is redeemed by at
\* most one exchangeAuthorizationCode call, and every exchange of a code that
\* was already redeemed fails with "Invalid authorization code".
C1_OneTimeUse ==
  /\ \A c \in DOMAIN redeemed : redeemed[c] <= 1
  /\ (lastX.op = "exchange" /\ lastX.prior >= 1)
       => (~lastX.ok /\ lastX.error = "Invalid authorization code"
           /\ lastX.access_token = NoToken)

\* a redeemed code has been presented again by the client it was issued to
C1_Witness ==
  /\ lastX.op = "exchange" /\ lastX.prior = 1 /\ ~lastX.ok
  /\ lastX.code \in DOMAIN minted
  /\ minted[lastX.code].client_id = lastX.client_id

\* C2: an exchange by a client whose client_id differs from the one the code
\* was minted for fails and returns no token, also when the code is still in
\* the table and unexpired.
C2_ClientBinding ==
  (lastX.op = "exchange" /\ lastX.code \in DOMAIN minted
     /\ minted[lastX.code].client_id # lastX.client_id)
    => (~lastX.ok /\ lastX.access_token = NoToken)

\* a foreign client has presented a code that was live and unexpired
C2_Witness ==
  /\ lastX.op = "exchange" /\ lastX.code \in DOMAIN minted
  /\ minted[lastX.code].client_id # lastX.client_id
  /\ lastX.live
  /\ lastX.error = "Authorization code was not issued to this client"

\* C3: a successful exchange of code c returns as access_token exactly the
\* credential submitted in the consent submission that minted c, with
\* token_type bearer.
C3_TokenIsSubmittedCredential ==
  (lastX.op = "exchange" /\ lastX.ok)
    => (/\ lastX.code \in DOMAIN minted
        /\ lastX.access_token = minted[lastX.code].apiKey
        /\ lastX.token_type = "bearer")

\* two authorization attempts with different credentials were interleaved, and
\* the code minted second was exchanged while the first was still in the table
C3_Witness ==
  /\ lastX.op = "exchange" /\ lastX.ok
  /\ \E c \in DOMAIN codes :
        /\ c < lastX.code
        /\ minted[c].apiKey # minted[lastX.code].apiKey
        /\ minted[c].pid > minted[lastX.code].pid

-----------------------------------------------------------------------------
(* Claims about the consent submission and the lifetimes *)

\* the last operation was a consent submission that named a pending record
\* which was in the table and not older than PENDING_TTL
SubmitLive == lastX.op = "submit" /\ lastX.age >= 0 /\ lastX.age <= PENDING_TTL

\* the last operation was a consent submission whose pending_id was missing
\* from the table or named a record older than PENDING_TTL
SubmitDead == lastX.op = "submit" /\ (lastX.age = -1 \/ lastX.age > PENDING_TTL)

\* C11: a consent submission that names a live pending record and carries a
\* well-formed credential redirects to the redirect_uri and with the state that
\* authorize was called with for that record, and mints exactly one code, which
\* was neither in the code table nor ever minted before.
C11_SubmitRedirects ==
  (SubmitLive /\ lastX.wellFormed)
    => /\ lastX.status = "redirect"
       /\ lastX.redirectUri = lastX.began.redirectUri
       /\ lastX.state = lastX.began.state
       /\ Cardinality(lastX.newCodes) = 1
       /\ lastX.newCodes \cap lastX.used = {}
       /\ lastX.pendingLeft = {lastX.pid}

\* the second authorization begun was submitted first, some time after it
\* began, and while another code was still in the table
C11_Witness ==
  /\ SubmitLive /\ lastX.wellFormed /\ lastX.status = "redirect"
  /\ lastX.age > 0 /\ lastX.began.state = "st-1"
  /\ lastX.used # {} /\ lastX.pid = 2

\* C12: a consent submission that names a live pending record and carries a
\* credential parseApiKey rejects re-renders the form with the invalid-format
\* error and changes neither the code table nor the pending table, and a
\* well-formed submission that follows it for the same live pending_id
\* redirects with a new code.
C12_RejectedCredentialKeepsPending ==
  /\ (SubmitLive /\ ~lastX.wellFormed)
       => /\ lastX.status = "invalid_format"
          /\ lastX.newCodes = {} /\ lastX.codesSame /\ lastX.pendingSame
  /\ (SubmitLive /\ lastX.wellFormed /\ lastX.retry)
       => (lastX.status = "redirect" /\ Cardinality(lastX.newCodes) = 1)

\* a well-formed submission followed a rejected one for the same pending_id
C12_Witness ==
  /\ SubmitLive /\ lastX.wellFormed /\ lastX.retry /\ lastX.status = "redirect"

\* C13, as the specification states it: a submission whose pending_id is
\* missing or expired renders the expired error and leaves the pending table
\* and the code table as they were.
C13_Original ==
  SubmitDead => (lastX.status = "expired" /\ lastX.pendingSame /\ lastX.codesSame)

\* C13: a submission whose pending_id is missing or expired renders the
\* expired error, mints no code and leaves the code table as it was; the
\* pending table is as it was when the pending_id was missing, and loses just
\* the named record when that record had expired.
C13_ExpiredSubmission ==
  SubmitDead
    => /\ lastX.status = "expired"
       /\ lastX.newCodes = {} /\ lastX.codesSame
       /\ lastX.age = -1 => lastX.pendingSame
       /\ lastX.age > PENDING_TTL => lastX.pendingLeft = {lastX.pid}

\* an expired record was named by a submission with a well-formed credential
\* while another pending record was in the table
C13_Witness ==
  /\ SubmitDead /\ lastX.age > PENDING_TTL /\ lastX.wellFormed
  /\ lastX.pendingLeft = {lastX.pid} /\ pending # EmptyMap

\* the last operation was an exchange, by the client it was minted for, of a
\* code that no exchange had redeemed
ExchangeByOwner ==
  /\ lastX.op = "exchange" /\ lastX.code \in DOMAIN minted
  /\ minted[lastX.code].client_id = lastX.client_id
  /\ lastX.prior = 0

\* C14: an exchange, by the client it was issued to, of a code that was never
\* redeemed fails and returns no token when the code is older than
\* AUTH_CODE_TTL (also when the cleanup has removed it meanwhile), and
\* succeeds when the code is not older than AUTH_CODE_TTL.
C14_CodeExpiry ==
  ExchangeByOwner
    => /\ (lastX.age > AUTH_CODE_TTL \/ lastX.age = -1)
            => (~lastX.ok /\ lastX.access_token = NoToken)
       /\ lastX.age > AUTH_CODE_TTL => lastX.error = "Authorization code expired"
       /\ (lastX.age >= 0 /\ lastX.age <= AUTH_CODE_TTL) => lastX.ok

\* a code still in the table was presented by its client after AUTH_CODE_TTL
C14_Witness ==
  /\ ExchangeByOwner /\ lastX.age > AUTH_CODE_TTL /\ ~lastX.ok

\* C17: verifyAccessToken succeeds exactly for the tokens that are well-formed
\* API keys, whatever the code, pending and client tables hold and whether or
\* not an exchange ever returned the token; on success it returns the token
\* with no scopes and an expiry a year ahead, on failure no auth info.
C17_VerifyAccessToken ==
  lastX.op = "verify"
    => /\ lastX.ok <=> lastX.token \in ValidKeys
       /\ lastX.ok => /\ lastX.info.token = lastX.token
                      /\ lastX.info.scopes = << >>
                      /\ lastX.info.expiresAt >= lastX.at + YearMinutes
       /\ ~lastX.ok => lastX.info = NULL

\* a well-formed key that no consent submission ever carried was verified
\* while the code table held a code minted for another key
C17_Witness ==
  /\ lastX.op = "verify" /\ lastX.ok /\ lastX.token = KeyLegacy /\ ~lastX.exchanged
  /\ codes # EmptyMap /\ lastX.at > 0

\* C15: a submission that names a pending record older than PENDING_TTL mints
\* no code, and every pending record in the table is eventually removed from
\* it, given that time passes and the cleanup interval keeps firing.
C15_PendingLifetime ==
  /\ []((lastX.op = "submit" /\ lastX.age > PENDING_TTL)
          => (lastX.status # "redirect" /\ lastX.newCodes = {} /\ lastX.codesSame))
  /\ \A pid \in PendingIds : (pid \in DOMAIN pending) ~> (pid \notin DOMAIN pending)

\* a pending record was left alone until the cleanup interval removed it, and
\* a submission then named it
C15_Witness ==
  /\ lastX.op = "submit" /\ lastX.age = -1 /\ lastX.pid \in 1..nPending
  /\ nCodes = 0 /\ now > PENDING_TTL

-----------------------------------------------------------------------------
(* Claim about the credential codec, checked under SpecCodec *)

\* C16: parseApiKey returns valid with exactly the embedded tenant for a value
\* adas_<tenant>_<32 lower-case hex> whose tenant is of the accepted form,
\* valid with tenant null for adas_<32 lower-case hex>, and invalid with tenant
\* null for every other value, the empty string and non-strings included.
C16_ParseApiKey ==
  returned.called
    => (returned.isValid = input.expect.isValid /\ returned.tenant = input.expect.tenant)

\* a key with a tenant of the maximal length has been parsed
C16_Witness ==
  /\ returned.called /\ returned.isValid
  /\ returned.tenant # NULL /\ Len(returned.tenant) = TenantMidMax + 2

-----------------------------------------------------------------------------
(* Claims about the session store, checked under SpecStore *)

\* the step calls setSessionCredentials(A, ...) or clearSession(A): a new
\* connection seeded under id A, a POST on session A, or the close of A
StepOn(A) ==
  \/ \E token \in StoreTokens :
        McpPostInit(token, MaxStoreConns) /\ A \in DOMAIN conns' \ DOMAIN conns
  \/ \E token \in StoreTokens, tc \in StoreToolCalls : McpPostToolCall(A, token, tc)
  \/ \E token \in StoreTokens : McpPostOther(A, token)
  \/ McpDelete(A)

\* the tenant setSessionCredentials stores for the arguments (tenant, apiKey)
StoredTenant(tenant, apiKey) ==
  IF tenant \notin {NULL, UNDEFINED, EMPTY} THEN tenant
  ELSE IF apiKey = KeyT1 THEN TenantT1
  ELSE IF apiKey = KeyT2 THEN TenantT2
  ELSE MAIN

\* C4: a step that sets or clears the credentials of session A leaves
\* getCredentials(B) as it was for every other session id B, and in every
\* state getCredentials(B) of a stored session B is the tenant and the key that
\* setSessionCredentials was last called with for B.
C4_PerConnectionIsolation ==
  /\ [](\A B \in DOMAIN sessions :
          /\ B \in DOMAIN lastSet
          /\ getCredentials(sessions, B) =
               [tenant |-> StoredTenant(lastSet[B].tenant, lastSet[B].apiKey),
                apiKey |-> lastSet[B].apiKey])
  /\ [][\A A \in ConnIds : StepOn(A) =>
           \A B \in ConnIds \ {A} :
              getCredentials(sessions', B) = getCredentials(sessions, B)]_vars

\* two sessions hold different credentials, and the call that returned last
\* was an ateam_auth on the session that was created first
C4_Witness ==
  /\ {1, 2} \subseteq DOMAIN sessions
  /\ sessions[1].apiKey # sessions[2].apiKey
  /\ sessions[1].tenant # sessions[2].tenant
  /\ done.tool = "ateam_auth" /\ done.sid = 1
  /\ sessions[1].apiKey # conns[1].token

-----------------------------------------------------------------------------
(* Claim about the tenant fallback cache, checked under SpecFallback *)

\* C5: a session seeded for tenant T from the fallback cache holds a credential
\* of T and never one of another tenant, also when another tenant's entry is
\* newer than T's; a seed that finds no non-expired entry of T returns false
\* and changes neither the sessions nor the cache.
C5_FallbackTenantIsolation ==
  fbLast.op = "seed" =>
    /\ fbLast.ok => (/\ fbLast.got \in CredsOf(fbLast.tenant)
                     /\ \A o \in FbTenants \ {fbLast.tenant} : fbLast.got \notin CredsOf(o))
    /\ ~fbLast.ok => (~fbLast.changed /\ fbLast.got = NULL)

\* a session was seeded for a tenant while another tenant's entry was newer
C5_Witness ==
  /\ fbLast.op = "seed" /\ fbLast.ok /\ fbLast.otherNewer

-----------------------------------------------------------------------------
(* Claims about the dispatcher and the HTTP binder, checked under SpecSess *)

\* the tool calls in flight and the call that returned last
SeenCalls == {calls[c] : c \in CallSlots} \cup {done}

\* C6, as the specification states it: a call of a WRITE_TOOLS tool that was
\* not refused found credentials stored for its session.
C6_Original ==
  \A x \in SeenCalls :
     (x.tool \in WRITE_TOOLS /\ x.result # "auth_required") => x.hadEntry

\* C6: a call of a WRITE_TOOLS tool is refused with the authentication-required
\* result exactly when the key resolved for its session, the stored key or else
\* the environment key, is the empty string; with a non-empty key the call
\* proceeds, also when the key comes from the environment alone.
C6_GateOnResolvedKey ==
  \A x \in SeenCalls :
     x.tool \in WRITE_TOOLS =>
        /\ (x.result = "auth_required") <=> (x.gateKey = EMPTY)
        /\ (IsString(x.gateKey) /\ x.gateKey # EMPTY)
             => x.result \notin {"auth_required", "threw", "unknown_tool"}

\* a session without stored credentials deployed with the environment key
C6_Witness ==
  /\ done.tool = "ateam_deploy_solution" /\ done.result = "returned"
  /\ ~done.hadEntry /\ done.gateKey = envKey /\ envKey = KeyLegacy

\* C7: no tool call has issued a deploy or modify request while
\* isAuthenticated was false for its session.
C7_NoUnauthenticatedWrite == \A x \in SeenCalls : ~x.unauthWrite

\* C8: while a new connection whose initialize request carried a verified
\* token waits for the transport, the store already holds that token and its
\* tenant under the new session id, and every tool call on such a connection
\* found credentials stored for its session.
C8_SeedBeforeHandoff ==
  /\ \A sid \in DOMAIN conns :
        (conns[sid].pc = "connecting" /\ conns[sid].token # NoToken)
          => /\ sid \in DOMAIN sessions
             /\ sessions[sid] = [tenant |-> StoredTenant(NULL, conns[sid].token),
                                 apiKey |-> conns[sid].token]
  /\ \A x \in SeenCalls :
        (x.sid \in DOMAIN conns /\ conns[x.sid].token # NoToken) => x.hadEntry

\* the initialize request of a tenant key has been seeded and not yet handed on
C8_Witness ==
  \E sid \in DOMAIN conns :
     /\ conns[sid].pc = "connecting" /\ conns[sid].token = KeyT1
     /\ sid \in DOMAIN sessions /\ sessions[sid].tenant = TenantT1

\* C9: a connection that has closed, or that failed before it was
\* initialized, has no entry in the session store and no registered transport.
C9_CleanupOnClose ==
  \A sid \in DOMAIN conns :
     conns[sid].pc \in {"closed", "failed"}
       => (sid \notin DOMAIN sessions /\ sid \notin transports)

\* a POST on session sid that carries the token
PostWith(sid, token) ==
  \/ McpPostOther(sid, token)
  \/ \E tc \in ToolCalls : tc.name # "ateam_auth" /\ McpPostToolCall(sid, token, tc)

\* a POST on session sid that calls ateam_auth
PostAuth(sid) ==
  \E token \in BearerTokens \cup {NoToken}, tc \in ToolCalls :
     tc.name = "ateam_auth" /\ McpPostToolCall(sid, token, tc)

\* C10, as the specification states it: the stored credentials of a session
\* change only in a step that calls ateam_auth on that session.
C10_Original ==
  [][\A sid \in DOMAIN sessions :
       (sid \in DOMAIN sessions' /\ sessions'[sid] # sessions[sid])
         => PostAuth(sid)]_vars

\* C10: the stored credentials of a session are replaced only by a POST on
\* that session that calls ateam_auth or carries a verified bearer token, and a
\* POST that carries a verified token and does not call ateam_auth leaves the
\* session with that token and the token's tenant.
C10_ReplacedByAuthOrToken ==
  [][\A sid \in DOMAIN sessions :
       /\ (sid \in DOMAIN sessions' /\ sessions'[sid] # sessions[sid])
            => (PostAuth(sid) \/ \E token \in BearerTokens : PostWith(sid, token))
       /\ \A token \in BearerTokens :
            PostWith(sid, token)
              => sessions'[sid] = [tenant |-> StoredTenant(NULL, token), apiKey |-> token]
     ]_vars

\* a POST that did not call ateam_auth has left the session with a key other
\* than the one its connection was created with
C10_Witness ==
  /\ 1 \in DOMAIN sessions /\ 1 \in transports
  /\ \A c \in CallSlots : Free(c)
  /\ done.tool = "ateam_bootstrap" /\ done.sid = 1
  /\ conns[1].token = KeyT1 /\ sessions[1].apiKey = KeyT2

-----------------------------------------------------------------------------
(* Session ids without a stored entry *)

\* the process-wide default: ADAS_TENANT when set, else the tenant embedded in
\* ADAS_API_KEY, else "main"; the credential is ADAS_API_KEY, "" when unset
DefaultTenant ==
  IF envTenant # EMPTY THEN envTenant
  ELSE IF envKey = KeyT1 THEN TenantT1
  ELSE MAIN

\* the session ids a caller may ask about: the generated ones and, as 0, the
\* absent session id of the stdio transport
AskedIds == ConnIds \cup {0}

\* C18: for every session id that has no stored entry, getCredentials returns
\* the process-wide default tenant and credential, and clearSession leaves the
\* session store as it is.
C18_AbsentSessionDefaults ==
  \A sid \in AskedIds \ DOMAIN sessions :
     /\ getCredentials(sessions, sid) = [tenant |-> DefaultTenant, apiKey |-> envKey]
     /\ clearSession(sessions, sid) = sessions
     /\ clearSession(clearSession(sessions, sid), sid) = sessions

\* a connection that was created with a tenant-T2 token has closed, its entry
\* is gone, and the environment key carries tenant T1: the closed session id
\* resolves to the environment's credential and tenant
C18_Witness ==
  /\ envKey = KeyT1 /\ envTenant = EMPTY
  /\ 1 \in DOMAIN conns /\ conns[1].pc = "closed" /\ conns[1].token = KeyT2
  /\ 1 \notin DOMAIN sessions
  /\ getCredentials(sessions, 1) = [tenant |-> TenantT1, apiKey |-> KeyT1]

-----------------------------------------------------------------------------
(* Sweep of idle sessions *)

\* the sessions idle longer than SESSION_TTL
Idle == {sid \in DOMAIN fbSessions : fbNow - fbSessions[sid].last_activity_at > SESSION_TTL}

\* C19: a sweep removes exactly the sessions idle longer than SESSION_TTL,
\* leaves the others as they are and returns the number it removed; a sweep
\* that directly follows a sweep removes nothing and returns zero.
C19_SweepIdempotent ==
  [][FbSweep =>
       /\ DOMAIN fbSessions' = DOMAIN fbSessions \ Idle
       /\ \A sid \in DOMAIN fbSessions' : fbSessions'[sid] = fbSessions[sid]
       /\ fbLast'.count = Cardinality(Idle)
       /\ justSwept => (fbLast'.count = 0 /\ fbSessions' = fbSessions)
    ]_vars

\* a sweep that removed a session and kept another was directly followed by a
\* second sweep
C19_Witness ==
  /\ fbLast.op = "sweep" /\ fbLast.again /\ justSwept
  /\ fbLast.before > 0 /\ fbLast.count = 0
  /\ fbSessions # EmptyMap

-----------------------------------------------------------------------------
(* Token relay: src/src/stub.js.  recentTokens is a Map; the model keeps its *)
(* entries in insertion order.                                              *)

TOKEN_TTL == 2                         \* 60 minutes

RelayTokens == {KeyT1, KeyT2, KeyLegacy}

\* `Bearer ${token}`
Bearer(token) == <<"B", "e", "a", "r", "e", "r", " ">> \o token

\* the Authorization header of an inbound request: absent, empty, or the
\* request's own credential
RequestHeaders == {UNDEFINED, EMPTY, Bearer(KeyBad)}

\* recentTokens.set(token, {token, createdAt}): a key already present keeps its
\* place in the iteration order
tokensSet(rt, token, t) ==
  IF \E i \in 1..Len(rt) : rt[i].token = token
  THEN [i \in 1..Len(rt) |-> IF rt[i].token = token
                             THEN [token |-> token, createdAt |-> t] ELSE rt[i]]
  ELSE Append(rt, [token |-> token, createdAt |-> t])

\* for (const [k, v] of recentTokens) if (Date.now() - v.createdAt > TOKEN_TTL) delete
tokensPrune(rt, t) == SelectSeq(rt, LAMBDA e : ~(t - e.createdAt > TOKEN_TTL))

NoNewest == [token |-> NULL, createdAt |-> -1]

\* the loop of getNewestToken from entry i on
RECURSIVE newestFrom(_, _, _, _, _)
newestFrom(rt, i, t, ttl, newest) ==
  IF i > Len(rt) THEN newest
  ELSE IF t - rt[i].createdAt > ttl THEN newestFrom(rt, i + 1, t, ttl, newest)
  ELSE IF newest = NoNewest \/ rt[i].createdAt > newest.createdAt
       THEN newestFrom(rt, i + 1, t, ttl, rt[i])
       ELSE newestFrom(rt, i + 1, t, ttl, newest)

\* a plausible slip: the age of an entry is not looked at
getNewestTokenAnyAge(rt, t) == newestFrom(rt, 1, t, MaxRelayTime + 1, NoNewest).token

\* getNewestToken(): newest?.token || null
getNewestToken(rt, t) == newestFrom(rt, 1, t, TOKEN_TTL, NoNewest).token

\* autoInjectToken: the Authorization header the request goes on with
autoInjectToken(rt, authorization, t) ==
  IF Truthy(authorization) THEN authorization
  ELSE LET token == getNewestToken(rt, t)
       IN IF Truthy(token) THEN Bearer(token) ELSE authorization

\* the /token interceptor: res.json caches the access_token of a 2xx response
\* and prunes; res.json then hands the serialized body to the patched res.send,
\* which caches it again; a body sent with res.send directly is cached only
tokenResponse(rt, via, ok, access_token, t) ==
  IF ~(Truthy(access_token) /\ ok) THEN rt
  ELSE IF via = "json" THEN tokensSet(tokensPrune(tokensSet(rt, access_token, t), t),
                                      access_token, t)
  ELSE tokensSet(rt, access_token, t)

RelayFrame == <<oauthVars, sessVars, fbVars, codecVars>>

RelayTick ==
  /\ rNow < MaxRelayTime
  /\ rNow' = rNow + 1
  /\ UNCHANGED <<recentTokens, lastRelay, RelayFrame>>

\* a POST /token is answered
TokenResponse(via, ok, access_token) ==
  /\ recentTokens' = tokenResponse(recentTokens, via, ok, access_token, rNow)
  /\ UNCHANGED <<rNow, lastRelay, RelayFrame>>

\* a request on an MCP path goes through autoInjectToken
AutoInjectToken(authorization) ==
  /\ lastRelay' = [op |-> "inject", in |-> authorization,
                   out |-> autoInjectToken(recentTokens, authorization, rNow),
                   at |-> rNow]
  /\ UNCHANGED <<rNow, recentTokens, RelayFrame>>

InitRelay ==
  /\ rNow = 0 /\ recentTokens = << >> /\ lastRelay = NoRelay
  /\ now = 0
  /\ clients = Put(EmptyMap, "ateam-public", PublicClient)
  /\ pending = EmptyMap /\ codes = EmptyMap
  /\ nPending = 0 /\ nCodes = 0
  /\ minted = EmptyMap /\ redeemed = EmptyMap /\ lastX = NoX /\ born = NoBorn
  /\ envKey = EMPTY /\ envTenant = EMPTY /\ oauthDisabled = FALSE
  /\ sessions = EmptyMap /\ transports = {} /\ conns = EmptyMap
  /\ calls = EmptyMap /\ done = 0 /\ lastSet = EmptyMap
  /\ fbNow = 0 /\ fbSessions = EmptyMap /\ fallback = EmptyMap /\ fbLast = 0 /\ justSwept = FALSE
  /\ input = NoInput /\ returned = NotParsed

NextRelay ==
  \/ RelayTick
  \/ \E via \in {"json", "send"}, ok \in BOOLEAN, access_token \in RelayTokens \cup {UNDEFINED} :
        TokenResponse(via, ok, access_token)
  \/ \E authorization \in RequestHeaders : AutoInjectToken(authorization)

SpecRelay == InitRelay /\ [][NextRelay]_vars

\* the cached entries not older than TOKEN_TTL
LiveTokens == {i \in 1..Len(recentTokens) : rNow - recentTokens[i].createdAt <= TOKEN_TTL}

\* the outcome of a request that is given a token: the latest issued of the
\* non-expired ones, and never an expired one
Injected(out) ==
  /\ LiveTokens # {} =>
       \E i \in LiveTokens :
          /\ \A j \in LiveTokens : recentTokens[i].createdAt >= recentTokens[j].createdAt
          /\ out = Bearer(recentTokens[i].token)
  /\ \A i \in (1..Len(recentTokens)) \ LiveTokens : out # Bearer(recentTokens[i].token)

\* C20, as the specification states it: a request that carries an
\* Authorization header goes on unchanged; a request without one gets the
\* latest issued non-expired cached token, or, when there is none, goes on
\* without a header; an expired token is never injected.
C20_Original ==
  [][\A authorization \in RequestHeaders :
       AutoInjectToken(authorization) =>
         /\ authorization # UNDEFINED => lastRelay'.out = authorization
         /\ authorization = UNDEFINED =>
              /\ Injected(lastRelay'.out)
              /\ LiveTokens = {} => lastRelay'.out = UNDEFINED
    ]_vars

\* C20: a request that carries a non-empty Authorization header goes on
\* unchanged; a request with no Authorization header, or an empty one, gets
\* 'Bearer t' with t the latest issued non-expired cached token, or, when there
\* is none, goes on as it came; an expired token is never injected.
C20_RelayNewestLiveToken ==
  [][\A authorization \in RequestHeaders :
       AutoInjectToken(authorization) =>
         /\ authorization \notin {UNDEFINED, EMPTY} => lastRelay'.out = authorization
         /\ authorization \in {UNDEFINED, EMPTY} =>
              /\ Injected(lastRelay'.out)
              /\ LiveTokens = {} => lastRelay'.out = authorization
    ]_vars

\* a request without a header has just been given the latest issued token,
\* while the cache also holds an older non-expired token after it and an
\* expired one
C20_Witness ==
  /\ lastRelay.op = "inject" /\ lastRelay.at = rNow /\ lastRelay.in = UNDEFINED
  /\ Len(recentTokens) = 3
  /\ lastRelay.out = Bearer(recentTokens[1].token)
  /\ \E j, k \in 2..3 :
        /\ j \in LiveTokens /\ recentTokens[j].createdAt < recentTokens[1].createdAt
        /\ k \notin LiveTokens

-----------------------------------------------------------------------------
(* Token relay cache *)

-----------------------------------------------------------------------------
(* The dispatcher's failure modes *)

\* C22: no call of handleToolCall throws: every call that has ended has
\* returned a result object.
C22_HandleToolCallNeverThrows ==
  /\ done.result # "threw"
  /\ \A c \in CallSlots : calls[c].result # "threw"

-----------------------------------------------------------------------------
(* Provenance of authorization codes *)

\* C23: every live authorization code was minted by one consent submission
\* from one pending record, that record is no longer in the pending table, and
\* no two codes ever minted come from the same pending record.
C23_CodeProvenance ==
  /\ \A c \in DOMAIN codes :
        /\ c \in DOMAIN minted
        /\ minted[c].pid \in 1..nPending
        /\ minted[c].pid \notin DOMAIN pending
        /\ codes[c].apiKey = minted[c].apiKey
        /\ codes[c].client.client_id = minted[c].client_id
  /\ \A c1, c2 \in DOMAIN minted : minted[c1].pid = minted[c2].pid => c1 = c2

\* the pending_id that minted a live code has been submitted again, with a
\* well-formed credential, while another pending record was waiting: the
\* submission was answered as expired and minted nothing
C23_Witness ==
  /\ lastX.op = "submit" /\ lastX.wellFormed /\ lastX.status = "expired"
  /\ lastX.newCodes = {}
  /\ \E c \in DOMAIN codes : minted[c].pid = lastX.pid
  /\ pending # EmptyMap

-----------------------------------------------------------------------------
(* Phases of ateam_build_and_run *)

\* the calls of ateam_build_and_run that passed the gate of handleToolCall, in
\* flight or just ended
BuildCalls == {x \in SeenCalls : /\ x.tool = "ateam_build_and_run"
                                  /\ x.result \notin {"auth_required", "threw"}}

IsPrefix(s, t) == Len(s) <= Len(t) /\ \A i \in 1..Len(s) : s[i] = t[i]

Has(s, e) == \E i \in 1..Len(s) : s[i] = e

\* C24: ateam_build_and_run sends its requests in the order validate, deploy,
\* health check, test; the deploy request only after validation returned
\* without errors, health check and test only after the deploy response had ok
\* set; the result has ok true exactly when validation returned no errors and
\* the deploy response had ok set, and a failed health check or test is
\* recorded in phases and leaves ok true.
C24_BuildPhases ==
  \A x \in BuildCalls :
     /\ IsPrefix(x.sent, <<"validate", "deploy", "read", "test">>)
     /\ Has(x.sent, "deploy") => x.validation = "clean"
     /\ (Has(x.sent, "read") \/ Has(x.sent, "test") \/ x.pc = "sleep") => x.deploy = "ok"
     /\ Has(x.sent, "test") => x.test
     /\ x.pc = "done" =>
          /\ x.result \in {"ok_true", "ok_false"}
          /\ x.result = "ok_true" <=> (x.validation = "clean" /\ x.deploy = "ok")
          /\ x.result = "ok_true" =>
               /\ Has(x.sent, "read")
               /\ x.test <=> Has(x.sent, "test")
               /\ Has(x.phases, "health:done") \/ Has(x.phases, "health:error")
               /\ x.test => (Has(x.phases, "test:done") \/ Has(x.phases, "test:error"))

\* a build whose health check and test both failed has returned ok true, with
\* both failures in phases
C24_Witness ==
  /\ done.pc = "done" /\ done.tool = "ateam_build_and_run" /\ done.result = "ok_true"
  /\ done.sent = <<"validate", "deploy", "read", "test">>
  /\ done.phases = <<"validate:done", "deploy:done", "health:error", "test:error">>

-----------------------------------------------------------------------------
(* Exchange attempts by the wrong client *)

\* C25: an exchange attempt by a client other than the one the code was
\* issued to fails and leaves the code table unchanged; as long as the code
\* has not expired, its own client can still redeem it, which consumes it.
C25_ForeignExchangeKeepsCode ==
  (/\ lastX.op = "exchange" /\ lastX.code \in DOMAIN minted
   /\ minted[lastX.code].client_id # lastX.client_id)
    => /\ ~lastX.ok /\ lastX.codesSame
       /\ (lastX.live /\ lastX.code \in DOMAIN codes /\ ~(codes[lastX.code].expiresAt < now))
            => LET r == exchangeAuthorizationCode(codes, codes[lastX.code].client,
                                                  lastX.code, now)
               IN /\ r.ok /\ r.access_token = minted[lastX.code].apiKey
                  /\ lastX.code \notin DOMAIN r.codes

\* a foreign client has just presented an unexpired code, and the code is
\* still in the table with the client and credential it was minted with
C25_Witness ==
  /\ lastX.op = "exchange" /\ ~lastX.ok /\ lastX.live
  /\ lastX.error = "Authorization code was not issued to this client"
  /\ lastX.code \in DOMAIN codes
  /\ codes[lastX.code].client.client_id = minted[lastX.code].client_id
  /\ codes[lastX.code].client.client_id # lastX.client_id
  /\ ~(codes[lastX.code].expiresAt < now)
  /\ exchangeAuthorizationCode(codes, codes[lastX.code].client, lastX.code, now).ok

-----------------------------------------------------------------------------
(* Cleanup against the handlers' own expiry tests *)

\* C26: the periodic cleanup removes only pending records that a consent
\* submission at the same instant answers as expired, and only codes that an
\* exchange by their own client at the same instant rejects as expired; an
\* entry whose expiresAt equals now is kept by cleanup and accepted by both.
C26_CleanupAgreesWithHandlers ==
  [][Cleanup =>
       /\ \A pid \in DOMAIN pending \ DOMAIN pending' :
             \A k \in SubmittedKeys :
                authorizeSubmit(pending, codes, pid, k, nCodes + 1, now).status = "expired"
       /\ \A pid \in DOMAIN pending' :
             authorizeSubmit(pending, codes, pid, KeyT1, nCodes + 1, now).status = "redirect"
       /\ \A c \in DOMAIN codes \ DOMAIN codes' :
             exchangeAuthorizationCode(codes, codes[c].client, c, now).error
               = "Authorization code expired"
       /\ \A c \in DOMAIN codes' :
             exchangeAuthorizationCode(codes, codes[c].client, c, now).ok
       /\ \A pid \in DOMAIN pending : pending[pid].expiresAt = now => pid \in DOMAIN pending'
       /\ \A c \in DOMAIN codes : codes[c].expiresAt = now => c \in DOMAIN codes'
    ]_vars

\* no submission or exchange has happened, one of two pending records is gone
\* and the other expires at this very instant: the cleanup that removed the
\* first ran now and kept the second, which a submission still accepts
C26_Witness ==
  /\ lastX = NoX /\ nPending = 2 /\ Cardinality(DOMAIN pending) = 1
  /\ \E pid \in DOMAIN pending :
        /\ pending[pid].expiresAt = now
        /\ authorizeSubmit(pending, codes, pid, KeyT1, nCodes + 1, now).status = "redirect"

-----------------------------------------------------------------------------
(* Credentials at the hand-over of a POST on an existing session *)

\* the tenant and credential derived from a bearer token
OfToken(token) == [tenant |-> StoredTenant(NULL, token), apiKey |-> token]

\* C27: with OAuth enabled, when a POST on an existing session is handed to the
\* transport the session's stored tenant and credential are the ones derived
\* from the request's bearer token, whatever ateam_auth stored before: the
\* tool call of the request finds them, and a request that does not call
\* ateam_auth leaves them in the store.
C27_TokenCredentialsAtHandover ==
  [][\A sid \in ConnIds, token \in BearerTokens :
       (/\ ~oauthDisabled /\ sid \in transports
        /\ \/ McpPostOther(sid, token)
           \/ \E tc \in ToolCalls : McpPostToolCall(sid, token, tc))
         => /\ seedCredentials(sessions, token, sid)[sid] = OfToken(token)
            /\ \A x \in SeenCalls' \ SeenCalls :
                  x.sid = sid => (x.hadEntry /\ x.gateKey = token)
            /\ PostWith(sid, token) => sessions'[sid] = OfToken(token)
    ]_vars

\* a session on which ateam_auth has returned holds the tenant and key of the
\* bearer token of a later request on it
C27_Witness ==
  /\ ~oauthDisabled /\ 1 \in transports
  /\ \A c \in CallSlots : Free(c)
  /\ done.pc = "done" /\ done.tool = "ateam_auth" /\ done.sid = 1
  /\ sessions[1] = OfToken(KeyT1)
  /\ lastSet[1] = [tenant |-> TenantT1, apiKey |-> KeyT1]

-----------------------------------------------------------------------------
(* ateam_auth whose verification fails *)

\* a call of ateam_auth with a non-empty key is about to return ok false
AuthFails(c) ==
  /\ calls[c].pc = "auth_verify"
  /\ IsString(calls[c].wrote.apiKey) /\ Truthy(calls[c].wrote.apiKey)
  /\ AuthVerifyReturns(c, FALSE)

\* C28, as the specification states it: when ateam_auth returns ok false for a
\* non-empty key, the session holds that key and tenant and isAuthenticated is
\* true.
C28_Original ==
  [][\A c \in CallSlots :
       AuthFails(c) =>
         /\ calls[c].sid \in DOMAIN sessions'
         /\ sessions'[calls[c].sid] = calls[c].wrote
         /\ isAuthenticated(sessions', calls[c].sid)
    ]_vars

\* C28: when ateam_auth returns ok false for a non-empty key, and no other
\* request has written the session's entry and no close has cleared it since
\* the handler stored the key, the session holds that key and tenant,
\* isAuthenticated is true and the credentials it held before are gone.
C28_FailedAuthKeepsKey ==
  [][\A c \in CallSlots :
       (/\ AuthFails(c)
        /\ calls[c].sid \in DOMAIN lastSet
        /\ lastSet[calls[c].sid] = calls[c].wrote)
         => /\ calls[c].sid \in DOMAIN sessions'
            /\ sessions'[calls[c].sid] = calls[c].wrote
            /\ isAuthenticated(sessions', calls[c].sid)
            /\ done'.result = "ok_false"
    ]_vars

\* ateam_auth has returned ok false on a session that was seeded with a
\* tenant-T2 token, and the session holds the tenant-T1 key with the explicit
\* tenant T2 that only the call can have supplied
C28_Witness ==
  /\ done.pc = "done" /\ done.tool = "ateam_auth" /\ done.result = "ok_false"
  /\ done.gateKey = KeyT2
  /\ done.sid \in DOMAIN sessions
  /\ sessions[done.sid] = [tenant |-> TenantT2, apiKey |-> KeyT1]
  /\ lastSet[done.sid] = sessions[done.sid]
  /\ isAuthenticated(sessions, done.sid)

-----------------------------------------------------------------------------
(* Credentials of the requests of one tool call *)

\* C29: all backend requests issued by one tool call carry the same tenant
\* and credential headers.
C29_SameCredentialsPerCall ==
  [][\A c \in CallSlots :
       (/\ calls[c].sent # << >>
        /\ calls'[c].sid = calls[c].sid
        /\ Len(calls'[c].sent) = Len(calls[c].sent) + 1)
         => headers(sessions, calls[c].sid) = calls[c].first
    ]_vars

-----------------------------------------------------------------------------
(* Requests after a connection has closed *)

\* C30: a closed connection's session id never has a credential entry or a
\* transport again, whatever tool call of it is still in flight; and a POST
\* that names an id without a registered transport, or that names no id and
\* is not an initialize request, is answered with 400 and leaves the transport
\* table and the session store as they were.
C30_ClosedSessionStaysClosed ==
  [][/\ \A sid \in DOMAIN conns' :
          conns'[sid].pc = "closed"
            => (sid \notin transports' /\ sid \notin DOMAIN sessions')
     /\ \A sessionId \in RequestIds, token \in StoreTokens, isInitialize \in BOOLEAN :
          McpPostUnregistered(sessionId, token, isInitialize)
            => /\ mcpPostUnregistered(sessions, transports, sessionId, token,
                                      isInitialize).status = 400
               /\ transports' = transports
               /\ sessions' = sessions
    ]_vars

====
